---- MODULE Spec2Model ----
(***************************************************************************)
(* Session-state broadcast and reconciliation of the Auditaria CLI web     *)
(* interface.                                                              *)
(*                                                                         *)
(*  - the broadcast hub: packages/cli/src/services/WebInterfaceService.ts  *)
(*  - the viewer's reconciliation engine:                                  *)
(*      packages/web-client/src/managers/MessageManager.js                 *)
(*  - the confirmation round trip: ToolConfirmationContext                 *)
(*      (src/unnamed/part_000) and App.tsx                                 *)
(*                                                                         *)
(* Time is in milliseconds, as Date.now() is.                              *)
(***************************************************************************)
EXTENDS Integers, Sequences, FiniteSets, TLC

\* ------------------------------------------------------------------ bounds

\* Hub operations (calls of the public methods, attaches) in one behaviour.
MaxOps == 5
\* Session operations (publishes, page opens) in one behaviour of the
\* specification of the session, the hub and the viewers together.
MaxSessionOps == 5
\* Longest history array handed to setCurrentHistory.
MaxHist == 2
\* Events one viewer processes in one behaviour of the viewer specification.
MaxEvents == 3
\* The viewer's clock advances in steps of TickStep up to MaxNow.
TickStep == 5000
MaxNow == 15000

\* ------------------------------------------------------------- value sets

Conns == {"c1", "c2"}
CallIds == {"A", "B"}

TerminalStatuses == {"Success", "Error", "Canceled"}
Statuses == {"Pending", "Confirming", "Executing"} \cup TerminalStatuses

NoTools == [c \in {} |-> "Pending"]

\* A HistoryItem as the wire carries it: its type, its text and, for a
\* tool_group, the status of each tool call by callId.
TextItem(ty, tx) == [type |-> ty, text |-> tx, tools |-> NoTools]
ToolItem(tl) == [type |-> "tool_group", text |-> "", tools |-> tl]
\* pending_item with data null
NullItem == [type |-> "null", text |-> "", tools |-> NoTools]

ToolMaps(S, St) == UNION {[D -> St] : D \in (SUBSET S) \ {{}}}

\* -------------------------------------------------- sequence utilities

\* The first index of the sequence of booleans bs that holds TRUE, 0 when
\* there is none (querySelector, Array.prototype.find, the first hit of a
\* for..of loop over the tested elements).
FirstTrue(bs) ==
    IF \E i \in 1..Len(bs) : bs[i]
    THEN CHOOSE i \in 1..Len(bs) : bs[i] /\ \A j \in 1..(i - 1) : ~bs[j]
    ELSE 0

RemoveAt(s, i) == [j \in 1..(Len(s) - 1) |-> IF j < i THEN s[j] ELSE s[j + 1]]

IsPrefix(s, t) == Len(s) <= Len(t) /\ \A i \in 1..Len(s) : s[i] = t[i]

\* Map.set for every entry of upd: existing keys are replaced, new ones added.
MapSetAll(old, upd) ==
    [c \in (DOMAIN old) \cup (DOMAIN upd) |->
        IF c \in DOMAIN upd THEN upd[c] ELSE old[c]]

Restrict(f, S) == [c \in (DOMAIN f) \cap S |-> f[c]]

\* ------------------------------------------- MessageManager (the viewer)

\* this.mergeTimeframe
mergeTimeframe == 10000

\* this.lastAIMessage = null
NoLast == [element |-> 0, text |-> <<>>, timestamp |-> 0, type |-> "none"]

\* The state of one MessageManager after its constructor ran:
\*   container  the children of #messages, in document order; each element has
\*              an identity (id), its class (final, pending-text,
\*              pending-tools, welcome), the type it was created with, its
\*              text content (the texts it shows, in order: a merged message
\*              shows several) and the tool statuses it displays
\*   lastAI     this.lastAIMessage
\*   groups     this.pendingToolGroups, in insertion order (a Map iterates so)
\*   completed  this.completedToolCallIds
\*   nextEl     the identity the next created element gets
NewManager ==
    [container |-> <<>>, lastAI |-> NoLast, groups |-> <<>>,
     completed |-> {}, nextEl |-> 1]

Element(i, cl, ty, tx, tl) ==
    [id |-> i, cls |-> cl, type |-> ty, text |-> tx, tools |-> tl]

\* createMessageWithCopy(item), appended to the container with class cl
AppendElement(m, cl, item) ==
    [m EXCEPT !.container =
                 Append(@, Element(m.nextEl, cl, item.type,
                                   IF item.type = "tool_group" THEN <<>>
                                   ELSE <<item.text>>, item.tools)),
              !.nextEl = @ + 1]

IdxOfId(m, i) ==
    FirstTrue([j \in 1..Len(m.container) |-> m.container[j].id = i])

\* querySelector('.message-pending-text')
PendingTextIdx(m) ==
    FirstTrue([j \in 1..Len(m.container) |-> m.container[j].cls = "pending-text"])

isAIMessage(h) == h.type = "gemini" \/ h.type = "gemini_content"

\* A merge test that excludes the end of the window.
canMergeBeforeWindowEnd(m, h, now) ==
    /\ m.lastAI # NoLast
    /\ isAIMessage(h)
    /\ now - m.lastAI.timestamp < mergeTimeframe

canMergeWithLast(m, h, now) ==
    /\ m.lastAI # NoLast
    /\ isAIMessage(h)
    /\ now - m.lastAI.timestamp <= mergeTimeframe

\* The element lastAIMessage points at is a finalized element of the
\* container and always holds a content span, so the merge succeeds.
mergeWithLastAIMessage(m, h, now) ==
    LET combined == m.lastAI.text \o <<h.text>>
        i == IdxOfId(m, m.lastAI.element)
    IN [m EXCEPT !.container = IF i = 0 THEN @
                               ELSE [@ EXCEPT ![i].text = combined],
                 !.lastAI = [@ EXCEPT !.text = combined, !.timestamp = now]]

\* A promotion that moves the pending element to the end of the list.
convertPendingToFinalAtEnd(m, i, h, now) ==
    [m EXCEPT !.container =
                 Append(RemoveAt(@, i),
                        [m.container[i] EXCEPT !.cls = "final",
                                               !.text = <<h.text>>]),
              !.lastAI = [element |-> m.container[i].id, text |-> <<h.text>>,
                          timestamp |-> now, type |-> h.type]]

convertPendingToFinal(m, i, h, now) ==
    [m EXCEPT !.container = [@ EXCEPT ![i].cls = "final",
                                      ![i].text = <<h.text>>],
              !.lastAI = [element |-> m.container[i].id, text |-> <<h.text>>,
                          timestamp |-> now, type |-> h.type]]

MatchCount(g, tools) == Cardinality((DOMAIN tools) \cap (DOMAIN g.tools))

\* A search that returns the first group sharing a callId.
findFirstSharingGroup(m, tools) ==
    FirstTrue([k \in 1..Len(m.groups) |-> MatchCount(m.groups[k], tools) > 0])

\* The index in groups of the best match, 0 for null: the first group, in
\* insertion order, with the largest count of shared callIds, if that is > 0.
findMatchingPendingToolGroup(m, tools) ==
    FirstTrue([k \in 1..Len(m.groups) |->
                 /\ MatchCount(m.groups[k], tools) > 0
                 /\ \A j \in 1..Len(m.groups) :
                      MatchCount(m.groups[j], tools)
                         <= MatchCount(m.groups[k], tools)])

\* The groups other than gi that hold a callId of the history item.
DuplicateGroups(m, gi, h) ==
    {k \in 1..Len(m.groups) :
        k # gi /\ (DOMAIN m.groups[k].tools) \cap (DOMAIN h.tools) # {}}

\* A finalization that leaves the other pending groups alone.
finalizeMatchedGroupOnly(m, gi, h) ==
    LET el == m.groups[gi].messageId
    IN [m EXCEPT !.container =
                    [j \in 1..Len(m.container) |->
                        IF m.container[j].id = el
                        THEN [m.container[j] EXCEPT !.cls = "final",
                                                    !.tools = h.tools]
                        ELSE m.container[j]],
                 !.groups = SelectSeq(@, LAMBDA g : g.messageId # el)]

updatePendingToolGroupToFinal(m, gi, h) ==
    LET el == m.groups[gi].messageId
        dup == DuplicateGroups(m, gi, h)
        dupEls == {m.groups[k].messageId : k \in dup}
        final == [j \in 1..Len(m.container) |->
                    IF m.container[j].id = el
                    THEN [m.container[j] EXCEPT !.cls = "final",
                                                !.tools = h.tools]
                    ELSE m.container[j]]
    IN [m EXCEPT !.container = SelectSeq(final, LAMBDA e : e.id \notin dupEls),
                 !.groups = SelectSeq(@, LAMBDA g :
                                g.messageId # el /\ g.messageId \notin dupEls)]

\* The tail of addHistoryItem: "Regular new message (no pending version
\* exists)", after the merge test.
AppendHistory(m, h, now) ==
    IF isAIMessage(h) /\ canMergeWithLast(m, h, now)
    THEN mergeWithLastAIMessage(m, h, now)
    ELSE LET a == AppendElement(m, "final", h)
         IN [a EXCEPT !.lastAI =
                IF isAIMessage(h)
                THEN [element |-> m.nextEl, text |-> <<h.text>>,
                      timestamp |-> now, type |-> h.type]
                ELSE NoLast]

MarkCompleted(m, h) ==
    [m EXCEPT !.completed =
        @ \cup {c \in DOMAIN h.tools : h.tools[c] \in TerminalStatuses}]

\* A finalization whose merge leaves the pending text element in the list.
addHistoryItemMergeKeepsPending(m, h, now) ==
    IF isAIMessage(h) /\ PendingTextIdx(m) # 0
    THEN IF canMergeWithLast(m, h, now)
         THEN mergeWithLastAIMessage(m, h, now)
         ELSE convertPendingToFinal(m, PendingTextIdx(m), h, now)
    ELSE IF h.type = "tool_group"
    THEN LET mc == MarkCompleted(m, h)
             gi == findMatchingPendingToolGroup(mc, h.tools)
         IN IF gi # 0 THEN updatePendingToolGroupToFinal(mc, gi, h)
            ELSE AppendHistory(mc, h, now)
    ELSE AppendHistory(m, h, now)

addHistoryItem(m, h, now) ==
    IF isAIMessage(h) /\ PendingTextIdx(m) # 0
    THEN IF canMergeWithLast(m, h, now)
         THEN mergeWithLastAIMessage(
                  [m EXCEPT !.container = RemoveAt(@, PendingTextIdx(m))],
                  h, now)
         ELSE convertPendingToFinal(m, PendingTextIdx(m), h, now)
    ELSE IF h.type = "tool_group"
    THEN LET mc == MarkCompleted(m, h)
             gi == findMatchingPendingToolGroup(mc, h.tools)
         IN IF gi # 0 THEN updatePendingToolGroupToFinal(mc, gi, h)
            ELSE AppendHistory(mc, h, now)
    ELSE AppendHistory(m, h, now)

\* An update that creates an element each time.
updatePendingTextMessageAppending(m, p) == AppendElement(m, "pending-text", p)

updatePendingTextMessage(m, p) ==
    IF PendingTextIdx(m) = 0
    THEN AppendElement(m, "pending-text", p)
    ELSE [m EXCEPT !.container[PendingTextIdx(m)].text = <<p.text>>]

\* An update taken as it comes, completed calls included.
AllTools(m, p) == p.tools

\* pendingItem.tools after the filter of the tools already completed
SurvivingTools(m, p) == Restrict(p.tools, (DOMAIN p.tools) \ m.completed)

\* A search that finds no group.
NoOverlappingGroup(m, tools) == 0

\* The first pending group, in insertion order, tracking a surviving callId.
OverlappingGroupIdx(m, tools) ==
    FirstTrue([k \in 1..Len(m.groups) |->
                 (DOMAIN m.groups[k].tools) \cap (DOMAIN tools) # {}])

updatePendingToolGroup(m, p) ==
    LET tools == SurvivingTools(m, p)
        gi == OverlappingGroupIdx(m, tools)
    IN IF DOMAIN tools = {} THEN m
       ELSE IF gi = 0
       THEN LET a == AppendElement(m, "pending-tools",
                                   [p EXCEPT !.tools = tools])
            IN [a EXCEPT !.groups =
                   Append(@, [messageId |-> m.nextEl, tools |-> tools])]
       ELSE LET merged == MapSetAll(m.groups[gi].tools, tools)
                i == IdxOfId(m, m.groups[gi].messageId)
            IN [m EXCEPT !.groups[gi].tools = merged,
                         !.container = IF i = 0 THEN @
                                       ELSE [@ EXCEPT ![i].tools = merged]]

clearAllPendingToolGroups(m) ==
    [m EXCEPT !.container = SelectSeq(@, LAMBDA e : e.cls # "pending-tools"),
              !.groups = <<>>]

\* A clear that leaves the pending text element in the list.
keepPendingTextMessage(m) == m

clearPendingTextMessage(m) ==
    IF PendingTextIdx(m) = 0 THEN m
    ELSE [m EXCEPT !.container = RemoveAt(@, PendingTextIdx(m))]

updatePendingItem(m, p) ==
    IF p = NullItem
    THEN clearPendingTextMessage(clearAllPendingToolGroups(m))
    ELSE IF p.type = "tool_group" THEN updatePendingToolGroup(m, p)
    ELSE updatePendingTextMessage(m, p)

\* A clear that removes the finalized entries only.
clearFinalizedOnly(m) ==
    [NewManager EXCEPT
        !.container = SelectSeq(m.container, LAMBDA e : e.cls # "final"),
        !.groups = m.groups,
        !.nextEl = m.nextEl]

\* A clear that keeps the set of completed callIds and the tracked text.
clearKeepingTracking(m) ==
    [NewManager EXCEPT !.completed = m.completed, !.lastAI = m.lastAI]

clearAllMessages(m) == NewManager

\* A load that creates one element per history item.
LoadOneNoMerge(m, h, now) ==
    LET a == AppendElement(m, "final", h)
    IN [a EXCEPT !.lastAI = NoLast]

\* One turn of the forEach of loadHistoryItems.
LoadOne(m, h, now) == AppendHistory(m, h, now)

RECURSIVE LoadFrom(_, _, _, _)
LoadFrom(m, hs, k, now) ==
    IF k > Len(hs) THEN m
    ELSE LoadFrom(LoadOne(m, hs[k], now), hs, k + 1, now)

\* The whole load runs in one turn of the event loop: every Date.now() in it
\* reads the same instant.
loadHistoryItems(m, hs, now) == LoadFrom(NewManager, hs, 1, now)

addWelcomeMessage(m) ==
    [m EXCEPT !.container = Append(@, Element(m.nextEl, "welcome", "info",
                                              <<"connected">>, NoTools)),
              !.nextEl = @ + 1]

\* A message of the wire: its type, the item it carries (history_item,
\* pending_item) and the history array it carries (history_sync).
Msg(ty, it, hs) == [type |-> ty, item |-> it, history |-> hs, data |-> <<>>]

\* A message of a snapshot category: { type, data, timestamp }
SnapMsg(ty, d) == [Msg(ty, NullItem, <<>>) EXCEPT !.data = d]

\* The switch on message.type that drives the manager.
handleMessage(m, msg, now) ==
    CASE msg.type = "connection" -> addWelcomeMessage(m)
      [] msg.type = "history_item" -> addHistoryItem(m, msg.item, now)
      [] msg.type = "pending_item" -> updatePendingItem(m, msg.item)
      [] msg.type = "history_sync" -> loadHistoryItems(m, msg.history, now)
      [] msg.type = "clear" -> clearAllMessages(m)
      [] OTHER -> m

\* What a viewer shows of the session: the rendered elements without their
\* identities and without the connection banner.
Shown(e) == [cls |-> e.cls, type |-> e.type, text |-> e.text, tools |-> e.tools]
Rendered(m) ==
    LET body == SelectSeq(m.container, LAMBDA e : e.cls # "welcome")
    IN [i \in 1..Len(body) |-> Shown(body[i])]

\* --------------------------------------------------------------- state

VARIABLES
    \* WebInterfaceService
    isRunning,          \* this.isRunning
    clients,            \* this.clients
    currentHistory,     \* this.currentHistory
    currentSlashCommands,    \* this.currentSlashCommands
    currentMCPServers,       \* this.currentMCPServers
    currentConsoleMessages,  \* this.currentConsoleMessages
    currentCliActionState,   \* this.currentCliActionState
    port,                    \* this.port
    bindLog,                 \* the listen calls of the last start()
    startReturn,             \* how the last start() ended
    server,                  \* the port this.server listens on, NoPort if unset
    \* the sockets
    readyState,         \* ws.readyState of the socket of each connection
    sent,               \* what the hub handed to each socket since its attach
    \* the viewers, one MessageManager behind each connection
    mm,                 \* the MessageManager
    rcvd,               \* how many messages of sent the viewer has handled
    now,                \* Date.now()
    \* the session engine's side (useHistoryManager)
    history,            \* the history state of the interactive session
    \* ToolConfirmationProvider and the hub's inbound side
    pendingConfirmations,     \* the React state, callIds in order
    pendingConfirmationsRef,  \* pendingConfirmationsRef.current
    updaters,                 \* state updaters queued, not yet rendered
    prevConfirmationsRef,     \* prevConfirmationsRef.current of App.tsx
    confirmationResponseHandler, \* whether the hub has the handler set
    submitQueryHandler,       \* whether the hub has the submit handler set
    abortHandler,             \* this.abortHandler, NoHandler while unset
    inbound,                  \* viewer messages on their way to the hub
    onConfirmCalls,           \* calls of confirmationDetails.onConfirm, by callId
    handlerCalls,             \* calls of the hub's handler, by callId
    submitCalls,              \* the queries submitQueryHandler was called with
    abortCalls,               \* the handlers called for an interrupt, in order
    asked,                    \* the callIds a confirmation was requested for
    withdrawn,                \* the callIds the session engine withdrew
    responded,                \* the dialogs the viewers answered
    strays,                   \* other viewer messages sent so far
    \* the connection side of one viewer (client.js, WebSocketManager)
    socket,             \* this.socket: which of its sockets the viewer holds
    isConnected,        \* this.isConnected
    reconnectAttempts,  \* this.reconnectAttempts
    sockets,            \* every WebSocket the viewer created, in order
    timers,             \* the reconnect timeouts pending, by the time due
    reconnectFailed,    \* how often the viewer reported the reconnect failed
    \* observation
    published,          \* the live events the session published, in order
    publishedSnapshot,  \* the last payload published in each snapshot category
    lastOp,             \* the last call of a hub method and its arguments
    lastEvt             \* the last message a viewer handled

hubVars == <<isRunning, clients, currentHistory, readyState, sent, lastOp>>
snapVars == <<currentSlashCommands, currentMCPServers, currentConsoleMessages,
              currentCliActionState, publishedSnapshot>>
startVars == <<port, bindLog, startReturn, server>>
viewerVars == <<mm, rcvd, now, lastEvt>>
sessVars == <<history, published>>
confVars == <<pendingConfirmations, pendingConfirmationsRef, updaters,
              prevConfirmationsRef, confirmationResponseHandler,
              submitQueryHandler, abortHandler, inbound, onConfirmCalls,
              handlerCalls, submitCalls, abortCalls, asked, withdrawn,
              responded, strays>>
connVars == <<socket, isConnected, reconnectAttempts, sockets, timers,
              reconnectFailed>>
vars == <<hubVars, snapVars, startVars, connVars, viewerVars, sessVars,
          confVars>>

NoOp == [n |-> 0, name |-> "none", item |-> NullItem, failed |-> {},
         pre |-> {}]
NoEvt == [n |-> 0, v |-> "none", msg |-> Msg("none", NullItem, <<>>), at |-> 0]

HubInit ==
    /\ isRunning = FALSE
    /\ clients = {}
    /\ currentHistory = <<>>
    /\ readyState = [c \in Conns |-> "NONE"]
    /\ sent = [c \in Conns |-> <<>>]
    /\ lastOp = NoOp

\* The events of the snapshot categories, and the mark of a category nothing
\* was published in yet.
SnapshotEvents ==
    {"footer_data", "loading_state", "slash_commands", "mcp_servers",
     "console_messages", "cli_action_required"}
NeverPublished == [made |-> FALSE, data |-> <<>>]

\* The field initialisers of the snapshot slots.
NoMCPServers == [servers |-> <<>>, blockedServers |-> <<>>]
NoCliAction == [active |-> FALSE, reason |-> "null"]

\* this.port while no server is up, and what start() has returned before
\* its first call.
NoPort == 0
NotStarted == [ok |-> FALSE, port |-> NoPort, config |-> NoPort,
               error |-> "none"]

StartInit ==
    /\ port = NoPort
    /\ bindLog = <<>>
    /\ startReturn = NotStarted
    /\ server = NoPort

SnapInit ==
    /\ currentSlashCommands = <<>>
    /\ currentMCPServers = NoMCPServers
    /\ currentConsoleMessages = <<>>
    /\ currentCliActionState = NoCliAction
    /\ publishedSnapshot = [k \in SnapshotEvents |-> NeverPublished]

ViewerInit ==
    /\ mm = [c \in Conns |-> NewManager]
    /\ rcvd = [c \in Conns |-> 0]
    /\ now = 0
    /\ lastEvt = NoEvt

SessInit ==
    /\ history = <<>>
    /\ published = <<>>

\* private abortHandler?: () => void, before setAbortHandler is called, and
\* the triggerAbort callbacks App.tsx hands over: the effect runs again when
\* useGeminiStream returns a new one.
NoHandler == 0
AbortHandlers == {1, 2}

ConfInit ==
    /\ pendingConfirmations = <<>>
    /\ pendingConfirmationsRef = <<>>
    /\ updaters = <<>>
    /\ prevConfirmationsRef = <<>>
    /\ confirmationResponseHandler = FALSE
    /\ submitQueryHandler = FALSE
    /\ abortHandler = NoHandler
    /\ inbound = <<>>
    /\ onConfirmCalls = [c \in CallIds |-> 0]
    /\ handlerCalls = [c \in CallIds |-> 0]
    /\ submitCalls = <<>>
    /\ abortCalls = <<>>
    /\ asked = {}
    /\ withdrawn = {}
    /\ responded = {}
    /\ strays = 0

\* this.maxReconnectAttempts and this.reconnectDelay
maxReconnectAttempts == 5
reconnectDelay == 2000

\* new WebSocket(wsUrl): a socket that is connecting and has no event of
\* its own to deliver yet
NewSocket == [state |-> "CONNECTING", events |-> <<>>]

\* The constructor ends with this.connect().
ConnInit ==
    /\ sockets = <<NewSocket>>
    /\ socket = 1
    /\ isConnected = FALSE
    /\ reconnectAttempts = 0
    /\ timers = <<>>
    /\ reconnectFailed = 0

Init ==
    /\ HubInit /\ SnapInit /\ StartInit /\ ConnInit /\ ViewerInit /\ SessInit
    /\ ConfInit

\* ------------------------------------- the viewer on an arbitrary stream

\* The statuses the events of the model carry: one that is not terminal and
\* two terminal ones.
EventStatuses == {"Executing", "Success", "Error"}
EventToolItems == {ToolItem(tl) : tl \in ToolMaps(CallIds, EventStatuses)}

HistoryItems ==
    {TextItem("gemini", "t"), TextItem("user", "u")} \cup EventToolItems
PendingItems ==
    {TextItem("gemini", "p"), TextItem("gemini", "q"), NullItem}
    \cup EventToolItems

\* The history arrays a history_sync of the model carries.
SyncItems == {TextItem("gemini", "t"), ToolItem([c \in {"A"} |-> "Success"])}
Histories == UNION {[1..k -> SyncItems] : k \in 0..MaxHist}

ViewerMessages ==
    {Msg("history_item", h, <<>>) : h \in HistoryItems}
    \cup {Msg("pending_item", p, <<>>) : p \in PendingItems}
    \cup {Msg("history_sync", NullItem, hs) : hs \in Histories}
    \cup {Msg("clear", NullItem, <<>>)}

\* The viewer handles one message: socket.onmessage, run to completion.
Handle(v, msg) ==
    /\ mm' = [mm EXCEPT ![v] = handleMessage(mm[v], msg, now)]
    /\ lastEvt' = [n |-> lastEvt.n + 1, v |-> v, msg |-> msg, at |-> now]

ViewerEvent ==
    /\ lastEvt.n < MaxEvents
    /\ \E msg \in ViewerMessages : Handle("c1", msg)
    /\ UNCHANGED <<rcvd, now, hubVars, snapVars, startVars, connVars, sessVars, confVars>>

Tick ==
    /\ now + TickStep <= MaxNow
    /\ now' = now + TickStep
    /\ UNCHANGED <<mm, rcvd, lastEvt, hubVars, snapVars, startVars, connVars, sessVars, confVars>>

NextViewer == ViewerEvent \/ Tick

SpecViewer == Init /\ [][NextViewer]_vars

\* ------------------------------------- the viewer on tool group streams

\* Events one viewer processes in one behaviour of this specification.
MaxGroupEvents == 4

\* Three tool calls, so that one pending group can share more callIds with a
\* finalized group than an earlier one does.
GroupCallIds == {"A", "B", "C"}

\* Pending updates of every set of calls, executing, and of one call
\* awaiting its turn; finalized groups of every set of calls; a user message.
GroupMessages ==
    {Msg("pending_item", ToolItem(tl), <<>>) :
        tl \in ToolMaps(GroupCallIds, {"Executing"})}
    \cup {Msg("pending_item", ToolItem([c \in {x} |-> "Pending"]), <<>>) :
            x \in GroupCallIds}
    \cup {Msg("history_item", ToolItem(tl), <<>>) :
            tl \in ToolMaps(GroupCallIds, {"Success"})}
    \cup {Msg("history_item", TextItem("user", "u"), <<>>)}

GroupEvent ==
    /\ lastEvt.n < MaxGroupEvents
    /\ \E msg \in GroupMessages : Handle("c1", msg)
    /\ UNCHANGED <<rcvd, now, hubVars, snapVars, startVars, connVars, sessVars, confVars>>

NextGroups == GroupEvent

SpecGroups == Init /\ [][NextGroups]_vars

\* ------------------------------------------------- WebInterfaceService

\* A forEach that the first failing connection would end for all.
RecipientsUntilFailure(cl, rs, failed) ==
    IF \E c \in cl : rs[c] # "OPEN" \/ c \in failed
    THEN {}
    ELSE cl

\* The connections a broadcast hands the message to: the registered ones
\* that are OPEN and whose send does not throw (failed: those whose send
\* throws in this call).
Recipients(cl, rs, failed) == {c \in cl : rs[c] = "OPEN" /\ c \notin failed}

\* The registry after the forEach of a broadcast: a connection that is not
\* OPEN, or whose send threw, has been deleted.
Survivors(cl, rs, failed) == {c \in cl : rs[c] = "OPEN" /\ c \notin failed}

\* if (!this.isRunning || this.clients.size === 0) return; then the forEach
FanOut(msg, failed) ==
    IF ~isRunning \/ clients = {}
    THEN UNCHANGED <<clients, sent>>
    ELSE /\ sent' = [c \in Conns |->
                        IF c \in Recipients(clients, readyState, failed)
                        THEN Append(sent[c], msg) ELSE sent[c]]
         /\ clients' = Survivors(clients, readyState, failed)

Called(name, item, failed) ==
    lastOp' = [n |-> lastOp.n + 1, name |-> name, item |-> item,
               failed |-> failed, pre |-> clients]

\* The sockets whose send can throw: a send to a registered OPEN socket.
CanFail == {c \in clients : readyState[c] = "OPEN"}

\* A broadcast that also appends the item to the stored history.
HistoryAppended(cur, h) == Append(cur, h)

\* The stored history broadcastMessage leaves behind.
HistoryAfterBroadcast(cur, h) == cur

broadcastMessage(h, failed) ==
    /\ FanOut(Msg("history_item", h, <<>>), failed)
    /\ currentHistory' = HistoryAfterBroadcast(currentHistory, h)
    /\ Called("broadcastMessage", h, failed)
    /\ UNCHANGED <<isRunning, readyState>>

broadcastPendingItem(p, failed) ==
    /\ FanOut(Msg("pending_item", p, <<>>), failed)
    /\ Called("broadcastPendingItem", p, failed)
    /\ UNCHANGED <<isRunning, readyState, currentHistory>>

setCurrentHistory(hs) ==
    /\ currentHistory' = hs
    /\ Called("setCurrentHistory", NullItem, {})
    /\ UNCHANGED <<isRunning, clients, readyState, sent>>

\* A clear that leaves the stored history alone.
HistoryKeptOnClear(cur) == cur

\* The stored history broadcastClear leaves behind, set before its guard.
HistoryAfterClear(cur) == <<>>

broadcastClear(failed) ==
    /\ currentHistory' = HistoryAfterClear(currentHistory)
    /\ FanOut(Msg("clear", NullItem, <<>>), failed)
    /\ Called("broadcastClear", NullItem, failed)
    /\ UNCHANGED <<isRunning, readyState>>

\* A bootstrap that carries the newest entry only.
BootstrapLatestOnly(cur) ==
    <<Msg("connection", NullItem, <<>>)>>
    \o (IF Len(cur) > 0
        THEN <<Msg("history_sync", NullItem, <<cur[Len(cur)]>>)>>
        ELSE <<>>)

\* What the connection handler sends to a new socket, in order: the welcome
\* message, then the history if there is any.
Bootstrap(cur) ==
    <<Msg("connection", NullItem, <<>>)>>
    \o (IF Len(cur) > 0 THEN <<Msg("history_sync", NullItem, cur)>> ELSE <<>>)

\* The stored snapshot values the connection handler sends after the history:
\* the slash commands if there are any, the MCP servers and the console
\* messages always, the CLI action state if one is active.
SnapshotReplay(slash, mcp, console, cli) ==
    (IF Len(slash) > 0
     THEN <<SnapMsg("slash_commands", [commands |-> slash])>> ELSE <<>>)
    \o <<SnapMsg("mcp_servers", mcp)>>
    \o <<SnapMsg("console_messages", console)>>
    \o (IF cli # NoCliAction /\ cli.active
        THEN <<SnapMsg("cli_action_required", cli)>> ELSE <<>>)

\* Everything the connection handler sends to a new socket, in order.
ConnectionSends ==
    Bootstrap(currentHistory)
    \o SnapshotReplay(currentSlashCommands, currentMCPServers,
                      currentConsoleMessages, currentCliActionState)

\* wss.on('connection'): a new socket for connection c. The server exists
\* while the hub runs.
Attach(c) ==
    /\ isRunning
    /\ readyState[c] # "OPEN"
    /\ c \notin clients
    /\ clients' = clients \cup {c}
    /\ readyState' = [readyState EXCEPT ![c] = "OPEN"]
    /\ sent' = [sent EXCEPT ![c] = ConnectionSends]
    /\ rcvd' = [rcvd EXCEPT ![c] = 0]
    /\ Called("attach", NullItem, {c})
    /\ UNCHANGED <<isRunning, currentHistory>>

\* The socket of c leaves OPEN (the peer went away); its close event is
\* dispatched later.
SocketClose(c) ==
    /\ readyState[c] = "OPEN"
    /\ readyState' = [readyState EXCEPT ![c] = "CLOSED"]
    /\ UNCHANGED <<isRunning, clients, currentHistory, sent, lastOp>>

\* ws.on('close')
OnClose(c) ==
    /\ readyState[c] = "CLOSED"
    /\ c \in clients
    /\ clients' = clients \ {c}
    /\ UNCHANGED <<isRunning, currentHistory, readyState, sent, lastOp>>

\* start(), when the server comes up
StartHub ==
    /\ ~isRunning
    /\ isRunning' = TRUE
    /\ Called("start", NullItem, {})
    /\ UNCHANGED <<clients, currentHistory, readyState, sent>>

\* stop(): closes every OPEN client, empties the registry
StopHub ==
    /\ isRunning
    /\ readyState' = [c \in Conns |->
                        IF c \in clients /\ readyState[c] = "OPEN"
                        THEN "CLOSED" ELSE readyState[c]]
    /\ clients' = {}
    /\ isRunning' = FALSE
    /\ Called("stop", NullItem, {})
    /\ UNCHANGED <<currentHistory, sent>>

\* The items the session engine publishes in the hub specification.
HubHistoryItems == {TextItem("gemini", "t"), ToolItem([c \in {"A"} |-> "Success"])}
HubPendingItems == {ToolItem([c \in {"A"} |-> "Executing"]), NullItem}

HubCall ==
    /\ lastOp.n < MaxOps
    /\ \/ StartHub
       \/ StopHub
       \/ \E h \in HubHistoryItems, F \in SUBSET CanFail : broadcastMessage(h, F)
       \/ \E p \in HubPendingItems, F \in SUBSET CanFail : broadcastPendingItem(p, F)
       \/ \E F \in SUBSET CanFail : broadcastClear(F)
       \/ \E hs \in Histories : setCurrentHistory(hs)
    /\ UNCHANGED <<snapVars, startVars, connVars, viewerVars, sessVars, confVars>>

HubAttach ==
    /\ lastOp.n < MaxOps
    /\ \E c \in Conns : Attach(c)
    /\ UNCHANGED <<mm, now, lastEvt, snapVars, startVars, connVars, sessVars, confVars>>

HubSocket ==
    /\ \E c \in Conns : SocketClose(c) \/ OnClose(c)
    /\ UNCHANGED <<snapVars, startVars, connVars, viewerVars, sessVars, confVars>>

NextHub == HubCall \/ HubAttach \/ HubSocket

SpecHub == Init /\ [][NextHub]_vars

\* ------------------------------ the viewer on the updates of a tool call

MaxStatusEvents == 3

\* The updates of the tool call A: a status that is not terminal and comes
\* early, one that comes late, and a terminal one.
StatusToolItems ==
    {ToolItem([c \in {"A"} |-> st]) : st \in {"Pending", "Executing", "Success"}}

StatusMessages ==
    {Msg("pending_item", p, <<>>) : p \in StatusToolItems \cup {NullItem}}
    \cup {Msg("history_item", h, <<>>) : h \in StatusToolItems}

StatusEvent ==
    /\ lastEvt.n < MaxStatusEvents
    /\ \E msg \in StatusMessages : Handle("c1", msg)
    /\ UNCHANGED <<rcvd, now, hubVars, snapVars, startVars, connVars, sessVars, confVars>>

NextStatus == StatusEvent \/ Tick

SpecStatus == Init /\ [][NextStatus]_vars

\* ------------------------------------ the viewer loading a history

MaxLoads == 2

\* The times the entries of a stored history were added at: within the merge
\* window of one another, and further apart.
EntryStamps == {0, TickStep, MaxNow}

\* History entries that carry the time they were added at.
StampedEntries ==
    {[type |-> ty, text |-> ty, tools |-> NoTools, timestamp |-> ts] :
        ty \in {"gemini", "gemini_content", "user"}, ts \in EntryStamps}

\* The histories a hub can hold: the entries in the order they were added.
StampedHistories ==
    {hs \in UNION {[1..n -> StampedEntries] : n \in 0..MaxHist} :
        \A i \in 1..(Len(hs) - 1) : hs[i].timestamp <= hs[i + 1].timestamp}

LoadSnapshot ==
    /\ lastEvt.n < MaxLoads
    /\ \E hs \in StampedHistories :
         Handle("c1", Msg("history_sync", NullItem, hs))
    /\ UNCHANGED <<rcvd, now, hubVars, snapVars, startVars, connVars, sessVars, confVars>>

NextLoad == LoadSnapshot \/ Tick

SpecLoad == Init /\ [][NextLoad]_vars

\* ------------------------------------------- leaving the registry

MaxDetachOps == 5

\* A removal that empties the registry.
DeleteAll(cl, c) == {}

\* this.clients.delete(ws)
Delete(cl, c) == cl \ {c}

\* ws.on('close'), dispatched for a socket that is closed, whether or not
\* the registry still holds it
CloseEvent(c) ==
    /\ readyState[c] = "CLOSED"
    /\ clients' = Delete(clients, c)
    /\ Called("close", NullItem, {c})
    /\ UNCHANGED <<isRunning, currentHistory, readyState, sent>>

\* ws.on('error'), for a socket that was opened: the error is logged and
\* the socket removed
ErrorEvent(c) ==
    /\ readyState[c] # "NONE"
    /\ clients' = Delete(clients, c)
    /\ Called("error", NullItem, {c})
    /\ UNCHANGED <<isRunning, currentHistory, readyState, sent>>

DetachStart ==
    /\ StartHub
    /\ UNCHANGED <<snapVars, startVars, connVars, viewerVars, sessVars, confVars>>

DetachAttach ==
    /\ lastOp.n < MaxDetachOps
    /\ \E c \in Conns : Attach(c)
    /\ UNCHANGED <<mm, now, lastEvt, snapVars, startVars, connVars, sessVars, confVars>>

\* A broadcast whose forEach prunes the sockets that are not OPEN or throw.
DetachPrune ==
    /\ lastOp.n < MaxDetachOps
    /\ \E F \in SUBSET CanFail : broadcastMessage(TextItem("gemini", "t"), F)
    /\ UNCHANGED <<snapVars, startVars, connVars, viewerVars, sessVars, confVars>>

DetachSocket ==
    /\ \E c \in Conns : SocketClose(c)
    /\ UNCHANGED <<snapVars, startVars, connVars, viewerVars, sessVars, confVars>>

DetachEvent ==
    /\ lastOp.n < MaxDetachOps
    /\ \E c \in Conns : CloseEvent(c) \/ ErrorEvent(c)
    /\ UNCHANGED <<snapVars, startVars, connVars, viewerVars, sessVars, confVars>>

NextDetach ==
    DetachStart \/ DetachAttach \/ DetachPrune \/ DetachSocket \/ DetachEvent

SpecDetach == Init /\ [][NextDetach]_vars

\* ------------------------------------------------------ start and stop

MaxStartOps == 6

\* const requestedPort = config.port || 8629: a port that is not given, or
\* given as 0, is the default one.
DefaultPort == 8629
requestedPort(configPort) == IF configPort = NoPort THEN DefaultPort ELSE configPort

\* config.port as the caller gives it, the ports the system assigns to a
\* listen on port 0, and the ways a listen ends: the server listens, or it
\* emits an error with this code.
ConfigPorts == {NoPort, 3000}
EphemeralPorts == {49152, 49153}
ListenOutcomes == {"listening", "EADDRINUSE", "EACCES"}

\* startServerOnPort(p, host) and how it ended; when the server listens,
\* bound is server.address().port.
Listen(p, outcome, assigned) ==
    [port |-> p, outcome |-> outcome,
     bound |-> IF outcome # "listening" THEN NoPort
               ELSE IF p = 0 THEN assigned ELSE p]

\* A start that tries the random port after any error of the first listen.
ListensRetryingAnyError(requested, o1, o2, assigned) ==
    IF o1 # "listening"
    THEN <<Listen(requested, o1, assigned), Listen(0, o2, assigned)>>
    ELSE <<Listen(requested, o1, assigned)>>

\* The listen calls of start(): the requested port, and port 0 when the
\* first one failed with EADDRINUSE.
Listens(requested, o1, o2, assigned) ==
    IF o1 = "EADDRINUSE"
    THEN <<Listen(requested, o1, assigned), Listen(0, o2, assigned)>>
    ELSE <<Listen(requested, o1, assigned)>>

\* What happens in start() once the server listens: server.address() is
\* read and the WebSocket server is set up on the server, or one of the two
\* throws.
SetupOutcomes == {"ok", "no_address", "wss_throws"}

\* start(config). found: the web client files exist; o1, o2: how the listen
\* calls end; assigned: the port the system gives to a listen on port 0;
\* setup: how the steps after the listen end. this.server is assigned when a
\* listen comes up, this.port when the address was read, isRunning at the
\* end. A call that throws inside the try block runs stop(), which returns
\* at once as the hub is not running.
start(configPort, found, o1, o2, assigned, setup) ==
    LET listens == IF found
                   THEN Listens(requestedPort(configPort), o1, o2, assigned)
                   ELSE <<>>
        bound == listens # <<>> /\ listens[Len(listens)].outcome = "listening"
        up == bound /\ setup = "ok"
    IN IF isRunning
       THEN /\ startReturn' = [ok |-> FALSE, port |-> NoPort,
                               config |-> configPort,
                               error |-> "already_running"]
            /\ bindLog' = <<>>
            /\ UNCHANGED <<isRunning, port, server>>
       ELSE /\ bindLog' = listens
            /\ server' = IF bound THEN listens[Len(listens)].bound ELSE server
            /\ port' = IF bound /\ setup # "no_address"
                       THEN listens[Len(listens)].bound ELSE port
            /\ isRunning' = up
            /\ startReturn' =
                  [ok |-> up,
                   port |-> IF up THEN listens[Len(listens)].bound ELSE NoPort,
                   config |-> configPort,
                   error |-> IF ~found THEN "no_web_client"
                             ELSE IF ~bound THEN "listen"
                             ELSE IF up THEN "none" ELSE setup]

StartCall ==
    /\ lastOp.n < MaxStartOps
    /\ \E cp \in ConfigPorts, found \in BOOLEAN, o1, o2 \in ListenOutcomes,
          assigned \in EphemeralPorts, setup \in SetupOutcomes :
            start(cp, found, o1, o2, assigned, setup)
    /\ Called("start", NullItem, {})
    /\ UNCHANGED <<clients, currentHistory, readyState, sent, snapVars,
                   connVars, viewerVars, sessVars, confVars>>

\* A stop that leaves the port set.
stopKeepingPort ==
    IF ~isRunning
    THEN /\ Called("stop", NullItem, {})
         /\ UNCHANGED <<isRunning, clients, currentHistory, readyState, sent,
                        port, server>>
    ELSE /\ StopHub
         /\ server' = NoPort
         /\ UNCHANGED port

\* stop(): returns at once on a hub that is not running; otherwise closes
\* the clients and the servers and unsets server, app and port.
stop ==
    IF ~isRunning
    THEN /\ Called("stop", NullItem, {})
         /\ UNCHANGED <<isRunning, clients, currentHistory, readyState, sent,
                        port, server>>
    ELSE /\ StopHub
         /\ server' = NoPort
         /\ port' = NoPort

StopCall ==
    /\ lastOp.n < MaxStartOps
    /\ stop
    /\ UNCHANGED <<bindLog, startReturn, snapVars, connVars, viewerVars,
                   sessVars, confVars>>

\* A viewer connects to the running hub.
StartAttach ==
    /\ lastOp.n < MaxStartOps
    /\ \E c \in Conns : Attach(c)
    /\ UNCHANGED <<mm, now, lastEvt, snapVars, startVars, connVars, sessVars,
                   confVars>>

NextStart == StartCall \/ StopCall \/ StartAttach

SpecStart == Init /\ [][NextStart]_vars

\* ------------------------------------------- the snapshot categories

MaxSnapOps == 4

\* The payloads the session publishes in the snapshot categories.
FooterValues == {[model |-> "model-a"], [model |-> "model-b"]}
LoadingValues == {"Idle", "Responding"}
SlashCatalogs == {<<>>, <<"help">>, <<"help", "clear">>}
ConsoleLogs == {<<>>, <<"log">>}
MCPInputs ==
    {[names |-> <<>>, connected |-> {}],
     [names |-> <<"srv">>, connected |-> {}],
     [names |-> <<"srv">>, connected |-> {"srv"}]}
CliActions ==
    {[active |-> TRUE, reason |-> "authentication"],
     [active |-> FALSE, reason |-> "authentication"]}

\* A publish in category k was made with payload d.
Published(k, d) ==
    publishedSnapshot' = [publishedSnapshot EXCEPT
                            ![k] = [made |-> TRUE, data |-> d]]

\* broadcastFooterData: nothing is stored
broadcastFooterData(d, failed) ==
    /\ FanOut(SnapMsg("footer_data", d), failed)
    /\ Called("broadcastFooterData", d, failed)
    /\ Published("footer_data", d)
    /\ UNCHANGED <<isRunning, readyState, currentHistory, currentSlashCommands,
                   currentMCPServers, currentConsoleMessages,
                   currentCliActionState>>

\* broadcastLoadingState: nothing is stored
broadcastLoadingState(d, failed) ==
    /\ FanOut(SnapMsg("loading_state", d), failed)
    /\ Called("broadcastLoadingState", d, failed)
    /\ Published("loading_state", d)
    /\ UNCHANGED <<isRunning, readyState, currentHistory, currentSlashCommands,
                   currentMCPServers, currentConsoleMessages,
                   currentCliActionState>>

\* The commands are stored before the guard.
broadcastSlashCommands(commands, failed) ==
    /\ currentSlashCommands' = commands
    /\ FanOut(SnapMsg("slash_commands", [commands |-> commands]), failed)
    /\ Called("broadcastSlashCommands", [commands |-> commands], failed)
    /\ Published("slash_commands", [commands |-> commands])
    /\ UNCHANGED <<isRunning, readyState, currentHistory, currentMCPServers,
                   currentConsoleMessages, currentCliActionState>>

\* The transformation of the MCP configuration for the web client: one
\* record per configured server, its status 'disconnected' unless known.
serversData(in) ==
    [i \in 1..Len(in.names) |->
        [name |-> in.names[i],
         status |-> IF in.names[i] \in in.connected
                    THEN "connected" ELSE "disconnected"]]

broadcastMCPServers(in, failed) ==
    LET data == [servers |-> serversData(in), blockedServers |-> <<>>]
    IN /\ currentMCPServers' = data
       /\ FanOut(SnapMsg("mcp_servers", data), failed)
       /\ Called("broadcastMCPServers", data, failed)
       /\ Published("mcp_servers", data)
       /\ UNCHANGED <<isRunning, readyState, currentHistory,
                      currentSlashCommands, currentConsoleMessages,
                      currentCliActionState>>

broadcastConsoleMessages(messages, failed) ==
    /\ currentConsoleMessages' = messages
    /\ FanOut(SnapMsg("console_messages", messages), failed)
    /\ Called("broadcastConsoleMessages", messages, failed)
    /\ Published("console_messages", messages)
    /\ UNCHANGED <<isRunning, readyState, currentHistory, currentSlashCommands,
                   currentMCPServers, currentCliActionState>>

\* The state is stored while the action is required and dropped otherwise.
broadcastCliActionRequired(a, failed) ==
    /\ currentCliActionState' = IF a.active THEN a ELSE NoCliAction
    /\ FanOut(SnapMsg("cli_action_required", a), failed)
    /\ Called("broadcastCliActionRequired", a, failed)
    /\ Published("cli_action_required", a)
    /\ UNCHANGED <<isRunning, readyState, currentHistory, currentSlashCommands,
                   currentMCPServers, currentConsoleMessages>>

SnapLifecycle ==
    /\ lastOp.n < MaxSnapOps
    /\ StartHub \/ StopHub
    /\ UNCHANGED <<snapVars, startVars, connVars, viewerVars, sessVars, confVars>>

SnapPublish ==
    /\ lastOp.n < MaxSnapOps
    /\ \E F \in SUBSET CanFail :
         \/ \E d \in FooterValues : broadcastFooterData(d, F)
         \/ \E d \in LoadingValues : broadcastLoadingState(d, F)
         \/ \E d \in SlashCatalogs : broadcastSlashCommands(d, F)
         \/ \E d \in MCPInputs : broadcastMCPServers(d, F)
         \/ \E d \in ConsoleLogs : broadcastConsoleMessages(d, F)
         \/ \E d \in CliActions : broadcastCliActionRequired(d, F)
    /\ UNCHANGED <<startVars, connVars, viewerVars, sessVars, confVars>>

SnapAttach ==
    /\ lastOp.n < MaxSnapOps
    /\ \E c \in Conns : Attach(c)
    /\ UNCHANGED <<mm, now, lastEvt, snapVars, startVars, connVars, sessVars, confVars>>

NextSnapshot == SnapLifecycle \/ SnapPublish \/ SnapAttach \/ HubSocket

SpecSnapshot == Init /\ [][NextSnapshot]_vars

\* -------------------------------- the session, the hub and the viewers

\* useHistoryManager.addItem: the item joins the session's history and is
\* broadcast; the hub's stored history follows in SyncHistory.
AddItem(h, failed) ==
    /\ history' = Append(history, h)
    /\ published' = Append(published, Msg("history_item", h, <<>>))
    /\ broadcastMessage(h, failed)

\* History Sync: useHistoryManager.history -> setCurrentHistory
SyncHistory ==
    /\ currentHistory # history
    /\ currentHistory' = history
    /\ UNCHANGED <<isRunning, clients, readyState, sent, lastOp, sessVars>>

\* useGeminiStream's pending item -> broadcastPendingItem
PublishPending(p, failed) ==
    /\ published' = Append(published, Msg("pending_item", p, <<>>))
    /\ broadcastPendingItem(p, failed)
    /\ UNCHANGED history

\* CLI /clear -> clearItems() -> broadcastClear()
ClearItems(failed) ==
    /\ history' = <<>>
    /\ published' = Append(published, Msg("clear", NullItem, <<>>))
    /\ broadcastClear(failed)

\* A browser opens the page: a new MessageManager behind a new socket.
Open(c) ==
    /\ Attach(c)
    /\ mm' = [mm EXCEPT ![c] = NewManager]

\* socket.onmessage of the viewer behind c, for the next message it was sent
Receive(c) ==
    /\ rcvd[c] < Len(sent[c])
    /\ rcvd' = [rcvd EXCEPT ![c] = @ + 1]
    /\ Handle(c, sent[c][rcvd[c] + 1])

SessionStep ==
    /\ lastOp.n < MaxSessionOps
    /\ \/ \E h \in HubHistoryItems, F \in SUBSET CanFail : AddItem(h, F)
       \/ \E p \in HubPendingItems, F \in SUBSET CanFail : PublishPending(p, F)
       \/ \E F \in SUBSET CanFail : ClearItems(F)
    /\ UNCHANGED <<snapVars, startVars, connVars, viewerVars, confVars>>

SessionSync == SyncHistory /\ UNCHANGED <<snapVars, startVars, connVars, viewerVars, confVars>>

ViewerOpen ==
    /\ lastOp.n < MaxSessionOps
    /\ \E c \in Conns : Open(c)
    /\ UNCHANGED <<now, lastEvt, snapVars, startVars, connVars, sessVars, confVars>>

ViewerReceive ==
    /\ \E c \in Conns : Receive(c)
    /\ UNCHANGED <<now, hubVars, snapVars, startVars, connVars, sessVars, confVars>>

\* WebInterfaceProvider starts the hub
SessionStart ==
    StartHub /\ UNCHANGED <<snapVars, startVars, connVars, viewerVars, sessVars, confVars>>

NextMirror ==
    SessionStart \/ SessionStep \/ SessionSync \/ ViewerOpen \/ ViewerReceive

SpecMirror == Init /\ [][NextMirror]_vars

\* ------------------------------------------ the confirmation round trip

\* Viewer responses sent in one behaviour.
MaxResponses == 3
\* Other viewer messages sent in one behaviour.
MaxStrays == 2

\* App.tsx: setConfirmationResponseHandler(handleConfirmationResponse)
RegisterHandler ==
    /\ ~confirmationResponseHandler
    /\ confirmationResponseHandler' = TRUE
    /\ UNCHANGED <<submitQueryHandler, abortHandler>>

\* App.tsx: setSubmitQueryHandler(stableWebSubmitQuery)
setSubmitQueryHandler ==
    /\ ~submitQueryHandler
    /\ submitQueryHandler' = TRUE
    /\ UNCHANGED <<confirmationResponseHandler, abortHandler>>

\* App.tsx: setAbortHandler(triggerAbort)
setAbortHandler ==
    /\ \E h \in AbortHandlers \ {abortHandler} : abortHandler' = h
    /\ UNCHANGED <<confirmationResponseHandler, submitQueryHandler>>

\* addPendingConfirmation: setPendingConfirmations(prev => [...filtered, c]).
\* A callId is unique in the session: a confirmation is requested once for it.
addPendingConfirmation(c) ==
    /\ c \notin asked
    /\ asked' = asked \cup {c}
    /\ updaters' = Append(updaters, [op |-> "add", callId |-> c])
    /\ UNCHANGED withdrawn

\* removePendingConfirmation: setPendingConfirmations(prev => prev.filter(..)).
\* The session engine withdraws a request it made, once.
removePendingConfirmation(c) ==
    /\ c \in asked
    /\ c \notin withdrawn
    /\ withdrawn' = withdrawn \cup {c}
    /\ updaters' = Append(updaters, [op |-> "remove", callId |-> c])
    /\ UNCHANGED asked

ApplyUpdater(prev, u) ==
    LET filtered == SelectSeq(prev, LAMBDA x : x # u.callId)
    IN IF u.op = "add" THEN Append(filtered, u.callId) ELSE filtered

RECURSIVE ApplyUpdaters(_, _)
ApplyUpdaters(prev, us) ==
    IF us = <<>> THEN prev
    ELSE ApplyUpdaters(ApplyUpdater(prev, Head(us)), Tail(us))

\* A render of ToolConfirmationProvider: the queued updaters are applied to
\* the state and the ref is assigned the new state.
Render ==
    /\ updaters # <<>>
    /\ pendingConfirmations' = ApplyUpdaters(pendingConfirmations, updaters)
    /\ pendingConfirmationsRef' = ApplyUpdaters(pendingConfirmations, updaters)
    /\ updaters' = <<>>

\* broadcastToolConfirmation / broadcastToolConfirmationRemoval messages
ConfirmationMsg(c) == SnapMsg("tool_confirmation", [callId |-> c])
RemovalMsg(c) == SnapMsg("tool_confirmation_removal", [callId |-> c])

\* The broadcasts of the effect on pendingConfirmations: the confirmations
\* that were not in the previous list, then the removals of those that were
\* and are no longer.
ConfirmationBroadcasts(prev, cur) ==
    LET newConfirmations ==
            SelectSeq(cur, LAMBDA x : ~\E i \in 1..Len(prev) : prev[i] = x)
        removedConfirmations ==
            SelectSeq(prev, LAMBDA x : ~\E i \in 1..Len(cur) : cur[i] = x)
    IN [i \in 1..Len(newConfirmations) |-> ConfirmationMsg(newConfirmations[i])]
       \o [i \in 1..Len(removedConfirmations) |->
              RemovalMsg(removedConfirmations[i])]

\* The effect of App.tsx that follows a render with a new pendingConfirmations
\* array: while the web interface runs it broadcasts the difference to the
\* previous list, each broadcast with the guard and the pruning of a
\* broadcast, and remembers the list.
BroadcastConfirmations(cur) ==
    LET msgs == ConfirmationBroadcasts(prevConfirmationsRef, cur)
    IN IF isRunning
       THEN /\ prevConfirmationsRef' = cur
            /\ IF clients = {} \/ msgs = <<>>
               THEN UNCHANGED <<clients, sent>>
               ELSE /\ sent' = [c \in Conns |->
                                  IF c \in Recipients(clients, readyState, {})
                                  THEN sent[c] \o msgs ELSE sent[c]]
                    /\ clients' = Survivors(clients, readyState, {})
       ELSE UNCHANGED <<prevConfirmationsRef, clients, sent>>

\* A lookup that takes whatever confirmation is pending.
AnyPendingConfirmation(ref, c) == Len(ref) > 0

\* pendingConfirmationsRef.current.find(c => c.callId === callId)
ConfirmationToHandle(ref, c) == \E i \in 1..Len(ref) : ref[i] = c

\* handleConfirmationResponse(callId, outcome): onConfirm is called and the
\* removal is queued when the ref holds the callId.
handleConfirmationResponse(c) ==
    IF ConfirmationToHandle(pendingConfirmationsRef, c)
    THEN /\ onConfirmCalls' = [onConfirmCalls EXCEPT ![c] = @ + 1]
         /\ updaters' = Append(updaters, [op |-> "remove", callId |-> c])
    ELSE UNCHANGED <<onConfirmCalls, updaters>>

\* A field a viewer message does not have.
Missing == ""

\* What arrives on a socket: from whom, whether JSON.parse yields an object,
\* and the fields of the object.
InMsg(v, ty, c, o, ct) ==
    [from |-> v, json |-> TRUE, type |-> ty, callId |-> c, outcome |-> o,
     content |-> ct]

\* The confirmation dialogs the viewer behind v shows: those it was sent
\* and was not sent the removal of, and did not answer.
DialogShown(v, c) ==
    /\ \E i \in 1..Len(sent[v]) :
         /\ sent[v][i] = ConfirmationMsg(c)
         /\ \A j \in (i + 1)..Len(sent[v]) : sent[v][j] # RemovalMsg(c)
    /\ <<v, c>> \notin responded

\* The viewer behind v answers the confirmation dialog of callId c.
sendConfirmationResponse(v, c) ==
    /\ readyState[v] = "OPEN"
    /\ DialogShown(v, c)
    /\ Len(inbound) < MaxResponses
    /\ responded' = responded \cup {<<v, c>>}
    /\ inbound' = Append(inbound, InMsg(v, "tool_confirmation_response", c,
                                        "proceed_once", <<>>))
    /\ UNCHANGED strays

\* String.prototype.trim on a string held as a sequence of characters
RECURSIVE trimStart(_)
trimStart(s) == IF s # <<>> /\ Head(s) = " " THEN trimStart(Tail(s)) ELSE s
RECURSIVE trimEnd(_)
trimEnd(s) ==
    IF s # <<>> /\ s[Len(s)] = " " THEN trimEnd(SubSeq(s, 1, Len(s) - 1)) ELSE s
trim(s) == trimEnd(trimStart(s))

\* Other things a viewer, or whoever holds its socket, can send: text that
\* is not JSON, a type the hub does not know, a message without its fields,
\* a response for a callId it was shown no dialog of, a chat message, an
\* interrupt.
StrayResponses(v) ==
    {InMsg(v, "tool_confirmation_response", c, "proceed_once", <<>>) :
        c \in {x \in CallIds : ~DialogShown(v, x)}}

StrayMessages(v) ==
    {[InMsg(v, Missing, Missing, Missing, <<>>) EXCEPT !.json = FALSE],
     InMsg(v, "ping", Missing, Missing, <<>>),
     InMsg(v, Missing, Missing, Missing, <<>>),
     InMsg(v, "tool_confirmation_response", Missing, "proceed_once", <<>>),
     InMsg(v, "tool_confirmation_response", "A", Missing, <<>>),
     InMsg(v, "user_message", Missing, Missing, <<>>),
     InMsg(v, "user_message", Missing, Missing, <<" ">>),
     InMsg(v, "user_message", Missing, Missing, <<" ", "h", "i">>),
     InMsg(v, "interrupt_request", Missing, Missing, <<>>),
     InMsg(v, "interrupt_request", "A", Missing, <<>>)}
    \cup StrayResponses(v)

sendStrayMessage(v, msg) ==
    /\ readyState[v] = "OPEN"
    /\ strays < MaxStrays
    /\ Len(inbound) < MaxResponses
    /\ strays' = strays + 1
    /\ inbound' = Append(inbound, msg)
    /\ UNCHANGED responded

\* An interrupt handled only when it names a callId.
CallsAbortHandlerForCallId(message) ==
    /\ message.type = "interrupt_request"
    /\ abortHandler # NoHandler
    /\ message.callId # Missing

\* else if (message.type === 'interrupt_request' && this.abortHandler)
CallsAbortHandler(message) ==
    message.type = "interrupt_request" /\ abortHandler # NoHandler

\* A test that is content with a callId.
HasCallId(message) == message.callId # Missing

\* if (message.callId && message.outcome)
HasResponseFields(message) ==
    message.callId # Missing /\ message.outcome # Missing

\* handleIncomingMessage(message), the dispatch on message.type
Dispatch(message) ==
    CASE message.type = "user_message" /\ submitQueryHandler ->
            /\ submitCalls' = IF trim(message.content) # <<>>
                              THEN Append(submitCalls, trim(message.content))
                              ELSE submitCalls
            /\ UNCHANGED <<abortCalls, handlerCalls, onConfirmCalls, updaters>>
      [] CallsAbortHandler(message) ->
            /\ abortCalls' = Append(abortCalls, abortHandler)
            /\ UNCHANGED <<submitCalls, handlerCalls, onConfirmCalls, updaters>>
      [] message.type = "tool_confirmation_response"
         /\ confirmationResponseHandler ->
            /\ IF HasResponseFields(message)
               THEN /\ handlerCalls' =
                         [handlerCalls EXCEPT ![message.callId] = @ + 1]
                    /\ handleConfirmationResponse(message.callId)
               ELSE UNCHANGED <<handlerCalls, onConfirmCalls, updaters>>
            /\ UNCHANGED <<submitCalls, abortCalls>>
      [] OTHER ->
            UNCHANGED <<submitCalls, abortCalls, handlerCalls, onConfirmCalls,
                        updaters>>

\* ws.on('message'), for the next viewer message: JSON.parse and
\* handleIncomingMessage inside one try, whose catch logs the error.
handleIncomingMessage ==
    /\ inbound # <<>>
    /\ inbound' = Tail(inbound)
    /\ IF Head(inbound).json
       THEN Dispatch(Head(inbound))
       ELSE UNCHANGED <<submitCalls, abortCalls, handlerCalls, onConfirmCalls,
                        updaters>>

provVars == <<pendingConfirmations, pendingConfirmationsRef, updaters>>
handlerVars == <<confirmationResponseHandler, submitQueryHandler, abortHandler>>
callVars == <<onConfirmCalls, handlerCalls, submitCalls, abortCalls>>
otherVars == <<snapVars, startVars, connVars, viewerVars, sessVars>>

ConfirmStart ==
    /\ StartHub
    /\ UNCHANGED <<confVars, otherVars>>

ConfirmAttach ==
    /\ \E c \in Conns : Attach(c)
    /\ UNCHANGED <<mm, now, lastEvt, snapVars, startVars, connVars, sessVars, confVars>>

AppRegister ==
    /\ RegisterHandler
    /\ UNCHANGED <<provVars, prevConfirmationsRef, inbound, callVars, asked,
                   withdrawn, responded, strays, hubVars, otherVars>>

\* The tool calls the session asks a confirmation for; the viewers can name
\* every callId.
RequestIds == {"A"}

ToolAsks ==
    /\ \E c \in RequestIds : addPendingConfirmation(c)
    /\ UNCHANGED <<pendingConfirmations, pendingConfirmationsRef,
                   prevConfirmationsRef, handlerVars, inbound, callVars,
                   responded, strays, hubVars, otherVars>>

ToolWithdraws ==
    /\ \E c \in CallIds : removePendingConfirmation(c)
    /\ UNCHANGED <<pendingConfirmations, pendingConfirmationsRef,
                   prevConfirmationsRef, handlerVars, inbound, callVars,
                   responded, strays, hubVars, otherVars>>

ProviderRender ==
    /\ Render
    /\ BroadcastConfirmations(pendingConfirmations')
    /\ UNCHANGED <<handlerVars, inbound, callVars, asked, withdrawn, responded,
                   strays, isRunning, currentHistory, readyState, lastOp,
                   otherVars>>

ViewerResponds ==
    /\ \E v \in Conns, c \in CallIds : sendConfirmationResponse(v, c)
    /\ UNCHANGED <<provVars, prevConfirmationsRef, handlerVars, callVars,
                   asked, withdrawn, hubVars, otherVars>>

ViewerRespondsUnasked ==
    /\ \E v \in Conns : \E msg \in StrayResponses(v) : sendStrayMessage(v, msg)
    /\ UNCHANGED <<provVars, prevConfirmationsRef, handlerVars, callVars,
                   asked, withdrawn, hubVars, otherVars>>

HubInbound ==
    /\ handleIncomingMessage
    /\ UNCHANGED <<pendingConfirmations, pendingConfirmationsRef,
                   prevConfirmationsRef, handlerVars, asked, withdrawn,
                   responded, strays, hubVars, otherVars>>

NextConfirm ==
    \/ ConfirmStart
    \/ ConfirmAttach
    \/ AppRegister
    \/ ToolAsks
    \/ ToolWithdraws
    \/ ProviderRender
    \/ ViewerResponds
    \/ ViewerRespondsUnasked
    \/ HubInbound

SpecConfirm == Init /\ [][NextConfirm]_vars

\* ------------------------------------------------ the hub's inbound side

InboundRegister ==
    /\ RegisterHandler \/ setSubmitQueryHandler \/ setAbortHandler
    /\ UNCHANGED <<provVars, prevConfirmationsRef, inbound, callVars, asked,
                   withdrawn, responded, strays, hubVars, otherVars>>

ViewerSends ==
    /\ \E v \in Conns : \E msg \in StrayMessages(v) : sendStrayMessage(v, msg)
    /\ UNCHANGED <<provVars, prevConfirmationsRef, handlerVars, callVars,
                   asked, withdrawn, hubVars, otherVars>>

NextInbound ==
    ConfirmStart \/ ConfirmAttach \/ InboundRegister \/ ViewerSends \/ HubInbound

SpecInbound == Init /\ [][NextInbound]_vars

\* -------------------------------------- the viewer that connects again

MaxRejoinOps == 6

\* What the session publishes while a viewer comes, goes and comes back.
RejoinHistoryItems == {TextItem("gemini", "t")}
RejoinPendingItems == {ToolItem([c \in {"A"} |-> "Executing"])}

\* The timer of attemptReconnect calls connect(): a new socket for the page
\* whose socket was closed. The connection handler of the hub treats it as
\* any new socket; the page keeps its MessageManager.
Reconnect(c) ==
    /\ readyState[c] = "CLOSED"
    /\ Attach(c)
    /\ UNCHANGED mm

RejoinSession ==
    /\ lastOp.n < MaxRejoinOps
    /\ \/ \E h \in RejoinHistoryItems : AddItem(h, {})
       \/ \E p \in RejoinPendingItems : PublishPending(p, {})
       \/ ClearItems({})
    /\ UNCHANGED <<snapVars, startVars, connVars, viewerVars, confVars>>

RejoinOpen ==
    /\ lastOp.n < MaxRejoinOps
    /\ Open("c1")
    /\ UNCHANGED <<now, lastEvt, snapVars, startVars, connVars, sessVars,
                   confVars>>

RejoinDrop ==
    /\ SocketClose("c1") \/ OnClose("c1")
    /\ UNCHANGED <<snapVars, startVars, connVars, viewerVars, sessVars,
                   confVars>>

RejoinReconnect ==
    /\ lastOp.n < MaxRejoinOps
    /\ Reconnect("c1")
    /\ UNCHANGED <<now, lastEvt, snapVars, startVars, connVars, sessVars,
                   confVars>>

NextRejoin ==
    \/ SessionStart
    \/ RejoinSession
    \/ SessionSync
    \/ RejoinOpen
    \/ RejoinDrop
    \/ RejoinReconnect
    \/ ViewerReceive

SpecRejoin == Init /\ [][NextRejoin]_vars

\* ------------------------------------------- the viewer's connection

\* Sockets one viewer creates in one behaviour.
MaxSockets == 5

\* A test that lets one more attempt through.
AttemptsExceeded(n) == n > maxReconnectAttempts

\* if (this.reconnectAttempts >= this.maxReconnectAttempts)
AttemptsExhausted(n) == n >= maxReconnectAttempts

\* attemptReconnect(): report and return when the attempts are used up,
\* otherwise count one and set the timeout that will call connect().
attemptReconnect ==
    IF AttemptsExhausted(reconnectAttempts)
    THEN /\ reconnectFailed' = reconnectFailed + 1
         /\ UNCHANGED <<reconnectAttempts, timers>>
    ELSE /\ reconnectAttempts' = reconnectAttempts + 1
         /\ timers' = Append(timers, now + reconnectDelay)
         /\ UNCHANGED reconnectFailed

\* handleDisconnection()
handleDisconnection ==
    /\ isConnected' = FALSE
    /\ attemptReconnect

\* connect(): the new socket takes the place of the one held. The URL is
\* built from window.location, so the constructor does not throw.
connect ==
    /\ sockets' = Append(sockets, NewSocket)
    /\ socket' = Len(sockets) + 1

\* The connection of socket i is established: its open event, socket.onopen.
onopen(i) ==
    /\ sockets[i].state = "CONNECTING"
    /\ sockets' = [sockets EXCEPT ![i].state = "OPEN"]
    /\ isConnected' = TRUE
    /\ reconnectAttempts' = 0
    /\ UNCHANGED <<socket, timers, reconnectFailed>>

\* The connection of socket i fails (refused while connecting, or lost):
\* the browser queues an error event and then a close event on the socket.
\* The server closes an open connection cleanly: a close event only.
SocketGoes(i, clean) ==
    /\ sockets[i].state \in {"CONNECTING", "OPEN"}
    /\ clean => sockets[i].state = "OPEN"
    /\ sockets' = [sockets EXCEPT
                      ![i] = [state |-> "CLOSED",
                              events |-> IF clean THEN <<"close">>
                                         ELSE <<"error", "close">>]]
    /\ UNCHANGED <<socket, isConnected, reconnectAttempts, timers,
                   reconnectFailed>>

\* socket.onerror of socket i
onerror(i) ==
    /\ sockets[i].events # <<>>
    /\ Head(sockets[i].events) = "error"
    /\ sockets' = [sockets EXCEPT ![i].events = Tail(@)]
    /\ handleDisconnection
    /\ UNCHANGED socket

\* socket.onclose of socket i
onclose(i) ==
    /\ sockets[i].events # <<>>
    /\ Head(sockets[i].events) = "close"
    /\ sockets' = [sockets EXCEPT ![i].events = Tail(@)]
    /\ isConnected' = FALSE
    /\ attemptReconnect
    /\ UNCHANGED socket

\* The timeout set by attemptReconnect comes due: connect()
ReconnectTimeout ==
    /\ timers # <<>>
    /\ Head(timers) <= now
    /\ Len(sockets) < MaxSockets
    /\ timers' = Tail(timers)
    /\ connect
    /\ UNCHANGED <<isConnected, reconnectAttempts, reconnectFailed>>

worldVars == <<hubVars, snapVars, startVars, viewerVars, sessVars, confVars>>

SocketOpens ==
    (\E i \in 1..Len(sockets) : onopen(i)) /\ UNCHANGED worldVars
SocketFails ==
    (\E i \in 1..Len(sockets) : SocketGoes(i, FALSE)) /\ UNCHANGED worldVars
SocketClosed ==
    (\E i \in 1..Len(sockets) : SocketGoes(i, TRUE)) /\ UNCHANGED worldVars
ErrorHandler ==
    (\E i \in 1..Len(sockets) : onerror(i)) /\ UNCHANGED worldVars
CloseHandler ==
    (\E i \in 1..Len(sockets) : onclose(i)) /\ UNCHANGED worldVars
TimeoutHandler == ReconnectTimeout /\ UNCHANGED worldVars

NextReconnect ==
    \/ SocketOpens
    \/ SocketFails
    \/ SocketClosed
    \/ ErrorHandler
    \/ CloseHandler
    \/ TimeoutHandler
    \/ Tick

SpecReconnect == Init /\ [][NextReconnect]_vars

\* ================================================================ claims

\* The message a broadcast* call of the hub specification fans out.
BroadcastMsgOf(op) ==
    CASE op.name = "broadcastMessage" -> Msg("history_item", op.item, <<>>)
      [] op.name = "broadcastPendingItem" -> Msg("pending_item", op.item, <<>>)
      [] op.name = "broadcastClear" -> Msg("clear", NullItem, <<>>)
      [] OTHER -> Msg("none", NullItem, <<>>)

IsBroadcast(op) ==
    op.name \in {"broadcastMessage", "broadcastPendingItem", "broadcastClear"}

\* C1. Fault isolation: in one broadcast* call of a running hub, a registered
\* connection whose send throws or that is not OPEN is deleted from the
\* registry and is sent nothing, the call completes, and every other
\* registered OPEN connection is sent the event in that same call and stays
\* registered.
C1_FaultIsolation ==
    [][(lastOp'.n = lastOp.n + 1 /\ IsBroadcast(lastOp') /\ isRunning
        /\ clients # {})
       => \A c \in Conns :
            IF c \in clients /\ readyState[c] = "OPEN" /\ c \notin lastOp'.failed
            THEN /\ sent'[c] = Append(sent[c], BroadcastMsgOf(lastOp'))
                 /\ c \in clients'
            ELSE /\ sent'[c] = sent[c]
                 /\ c \notin clients']_vars

\* A broadcastMessage to two registered OPEN connections in which the send to
\* c1 threw: c1 is gone, c2 holds the event.
C1_Witness ==
    /\ lastOp.name = "broadcastMessage"
    /\ lastOp.pre = {"c1", "c2"}
    /\ lastOp.failed = {"c1"}
    /\ clients = {"c2"}
    /\ Len(sent["c2"]) > 0
    /\ sent["c2"][Len(sent["c2"])] = Msg("history_item", lastOp.item, <<>>)

\* ---------------------------------------------------------------- C2

Last(s) == s[Len(s)]

\* The messages of a stream that carry the conversation; the others carry
\* the snapshot values shown around it.
ConversationTypes ==
    {"connection", "history_sync", "history_item", "pending_item", "clear"}
ConvOf(s) == SelectSeq(s, LAMBDA m : m.type \in ConversationTypes)
Conversation(c) == ConvOf(sent[c])

\* The viewer behind c has handled exactly the bootstrap of its connection:
\* the welcome message and, when one was sent, the history_sync.
BootstrappedOnly(c) ==
    /\ Len(Conversation(c)) \in {1, 2}
    /\ rcvd[c] = Len(sent[c])
    /\ Conversation(c)[1].type = "connection"
    /\ Len(Conversation(c)) = 2 => Conversation(c)[2].type = "history_sync"

\* The history the bootstrap of c carried.
BootHistory(c) ==
    IF Len(Conversation(c)) = 2 THEN Conversation(c)[2].history ELSE <<>>

\* The viewer behind c was attached before anything was published and has
\* handled every event published since.
LiveFromStart(c) ==
    /\ Conversation(c) = <<Msg("connection", NullItem, <<>>)>> \o published
    /\ rcvd[c] = Len(sent[c])

\* N history entries and then one pending tool group have been published.
OneActivePendingGroup ==
    /\ Len(published) > 0
    /\ Last(published).type = "pending_item"
    /\ Last(published).item.type = "tool_group"
    /\ \A i \in 1..(Len(published) - 1) : published[i].type = "history_item"

\* The finalized entries of a history as a list of entries: one entry per
\* item, but a run of consecutive agent texts is one entry.
RECURSIVE FinalEntries(_)
FinalEntries(hs) ==
    IF hs = <<>> THEN <<>>
    ELSE LET front == FinalEntries(SubSeq(hs, 1, Len(hs) - 1))
             h == Last(hs)
         IN IF /\ Len(hs) > 1
               /\ isAIMessage(h)
               /\ isAIMessage(hs[Len(hs) - 1])
            THEN [front EXCEPT ![Len(front)].text = @ \o <<h.text>>]
            ELSE Append(front,
                        [cls |-> "final", type |-> h.type,
                         text |-> IF h.type = "tool_group" THEN <<>>
                                  ELSE <<h.text>>,
                         tools |-> h.tools])

C3_ClearSemantics ==
    (Len(published) > 0 /\ Last(published).type = "clear" /\ isRunning)
    => /\ currentHistory = <<>>
       /\ \A c \in clients :
            /\ \/ Last(sent[c]).type = "clear"
               \/ Conversation(c) = <<Msg("connection", NullItem, <<>>)>>
            /\ rcvd[c] = Len(sent[c])
               => /\ Rendered(mm[c]) = <<>>
                  /\ mm[c].groups = <<>>
                  /\ mm[c].completed = {}
                  /\ PendingTextIdx(mm[c]) = 0

\* c1 showed a history entry and a pending group and handled the clear; c2
\* attached after the clear and handled its bootstrap.
C3_Witness ==
    /\ Len(published) >= 2
    /\ Last(published).type = "clear"
    /\ published[1].type = "history_item"
    /\ clients = {"c1", "c2"}
    /\ Len(Conversation("c1")) >= 3
    /\ rcvd["c1"] = Len(sent["c1"])
    /\ Conversation("c2") = <<Msg("connection", NullItem, <<>>)>>
    /\ rcvd["c2"] = 1

\* ---------------------------------------------------------------- C4

\* C4. Confirmation exactly-once: when the hub has handed two (or more)
\* tool_confirmation_response messages for a callId to the registered
\* handler, the confirmation's onConfirm has been called once at most (once
\* when the request was pending); the second response is dropped.
C4_ExactlyOnce ==
    \A c \in CallIds : handlerCalls[c] >= 2 => onConfirmCalls[c] <= 1

\* ---------------------------------------------------------------- C5

\* The statuses the viewer shows for callId c, over all rendered entries.
DisplayedStatuses(m, c) ==
    {m.container[i].tools[c] :
        i \in {j \in 1..Len(m.container) : c \in DOMAIN m.container[j].tools}}

\* A finalized entry shows c with a terminal status.
FinalizedTerminal(m, c) ==
    \E i \in 1..Len(m.container) :
        /\ m.container[i].cls = "final"
        /\ c \in DOMAIN m.container[i].tools
        /\ m.container[i].tools[c] \in TerminalStatuses

\* C5. Idempotent terminal state: once a finalized entry of the viewer shows
\* callId c with a terminal status, a pending_item or history_item that
\* mentions c leaves the statuses displayed for c as they were.
C5_TerminalStatusKept ==
    [][\A c \in CallIds :
         (/\ FinalizedTerminal(mm["c1"], c)
          /\ lastEvt'.n = lastEvt.n + 1
          /\ lastEvt'.msg.type \in {"pending_item", "history_item"}
          /\ c \in DOMAIN lastEvt'.msg.item.tools)
         => DisplayedStatuses(mm'["c1"], c) = DisplayedStatuses(mm["c1"], c)]_vars

\* ---------------------------------------------------------------- C6

\* C6. No duplicate tool groups: when the viewer has handled the history_item
\* of a tool group, no pending group of the index and no pending tool entry
\* of the list holds a callId of that group.
C6_NoDuplicateToolGroups ==
    (lastEvt.msg.type = "history_item" /\ lastEvt.msg.item.type = "tool_group")
    => LET T == DOMAIN lastEvt.msg.item.tools
           m == mm[lastEvt.v]
       IN /\ \A k \in 1..Len(m.groups) : (DOMAIN m.groups[k].tools) \cap T = {}
          /\ \A i \in 1..Len(m.container) :
               m.container[i].cls = "pending-tools"
               => (DOMAIN m.container[i].tools) \cap T = {}

\* Two pending groups, one for A and one for B, then the tool group {A, B}
\* finalized: one entry is left and the index is empty.
C6_Witness ==
    /\ lastEvt.n = 3
    /\ lastEvt.msg.type = "history_item"
    /\ lastEvt.msg.item.type = "tool_group"
    /\ DOMAIN lastEvt.msg.item.tools = {"A", "B"}
    /\ mm["c1"].nextEl = 3
    /\ Len(mm["c1"].container) = 1
    /\ mm["c1"].container[1].cls = "final"
    /\ mm["c1"].groups = <<>>

\* ---------------------------------------------------------------- C7

AgentTextEvent(e) == e.msg.type = "history_item" /\ isAIMessage(e.msg.item)

\* C7. Merge window: when the viewer handles two consecutive agent_text
\* history items d milliseconds apart, then for d within the merge window the
\* list keeps its length and the entry of the first shows both texts, and for
\* d beyond the window the second is a new finalized entry after the others.
C7_MergeWindow ==
    [][(/\ lastEvt'.n = lastEvt.n + 1
        /\ AgentTextEvent(lastEvt)
        /\ AgentTextEvent(lastEvt'))
       => LET d == lastEvt'.at - lastEvt.at
              m == mm["c1"]
              after == mm'["c1"].container
              t == lastEvt'.msg.item.text
          IN IF d <= 10000
             THEN \E i \in 1..Len(m.container) :
                    /\ m.container[i].id = m.lastAI.element
                    /\ after = [m.container EXCEPT ![i].text = @ \o <<t>>]
             ELSE after = Append(m.container,
                                 Element(m.nextEl, "final",
                                         lastEvt'.msg.item.type, <<t>>,
                                         NoTools))]_vars

\* Two agent texts finalized 5 seconds apart show as one entry.
C7_Witness ==
    /\ lastEvt.n = 2
    /\ AgentTextEvent(lastEvt)
    /\ lastEvt.at = 5000
    /\ Len(mm["c1"].container) = 1
    /\ mm["c1"].container[1].text = <<"t", "t">>
    /\ mm["c1"].lastAI.timestamp = 5000

\* ---------------------------------------------------------------- C8

Holds(hs, e) == \E i \in 1..Len(hs) : hs[i] = e

CurrentValue(k) ==
    IF publishedSnapshot[k].made THEN publishedSnapshot[k].data
    ELSE CASE k = "footer_data" -> [model |-> ""]
           [] k = "loading_state" -> "Idle"
           [] k = "slash_commands" -> [commands |-> <<>>]
           [] k = "mcp_servers" -> NoMCPServers
           [] k = "console_messages" -> <<>>
           [] k = "cli_action_required" -> NoCliAction

\* The categories C11 names: footer, loading state, console log, command
\* catalog and MCP catalog.
BootstrapCategories ==
    {"footer_data", "loading_state", "console_messages", "slash_commands",
     "mcp_servers"}

\* C11 as written: on attach the connection is sent each snapshot category
\* (footer, loading state, console log, command catalog, MCP catalog) as
\* its own event with the category's current value, an empty or default
\* value included.
C11_EachCategoryOnAttach ==
    lastOp.name = "attach"
    => \A c \in lastOp.failed, k \in BootstrapCategories :
         \E i \in 1..Len(sent[c]) :
            /\ sent[c][i].type = k
            /\ sent[c][i].data = CurrentValue(k)
            /\ \A j \in 1..Len(sent[c]) : sent[c][j].type = k => j = i

\* --------------------------------------------------------------- C12

\* C12 as written: a viewer that attaches while the pending-confirmation set
\* is not empty is sent the whole set in its bootstrap: a tool_confirmation
\* for every callId whose request is pending, with no new event from the
\* session engine.
C12_PendingSetOnAttach ==
    [][\A v \in Conns, c \in CallIds :
         (/\ v \notin clients
          /\ v \in clients'
          /\ ConfirmationToHandle(pendingConfirmations, c))
         => \E i \in 1..Len(sent'[v]) : sent'[v][i] = ConfirmationMsg(c)]_vars

\* --------------------------------------------------------------- C13

\* The value the hub holds in the slot of a snapshot category, as the
\* payload of the category's event; footer and loading state have no slot.
StoredValue(k) ==
    CASE k = "slash_commands" -> [commands |-> currentSlashCommands]
      [] k = "mcp_servers" -> currentMCPServers
      [] k = "console_messages" -> currentConsoleMessages
      [] k = "cli_action_required" -> currentCliActionState

\* The categories the hub has a slot for.
SlotCategories ==
    {"slash_commands", "mcp_servers", "console_messages", "cli_action_required"}

\* The payload of the last publish in category k says there is something to
\* show: every payload but an action-required flag that is not active.
Replayable(k) ==
    /\ publishedSnapshot[k].made
    /\ k = "cli_action_required" => publishedSnapshot[k].data.active

\* C13 as written: every snapshot category holds one current value, replaced
\* as a whole by every publish: the value the hub stores is the payload of
\* the last publish of the category, whether or not the hub was running or
\* a viewer attached when it was made, and a viewer that attaches is sent
\* that payload.
C13_SlotHoldsLatestPublish ==
    /\ \A k \in SlotCategories :
         Replayable(k) => StoredValue(k) = publishedSnapshot[k].data
    /\ lastOp.name = "attach"
       => \A c \in lastOp.failed, k \in SnapshotEvents :
            Replayable(k)
            => \E i \in 1..Len(sent[c]) :
                 /\ sent[c][i].type = k
                 /\ sent[c][i].data = publishedSnapshot[k].data

\* --------------------------------------------------------------- C15

\* How far a status is along Pending, Confirming, Executing, terminal.
Rank(st) ==
    CASE st = "Pending" -> 0
      [] st = "Confirming" -> 1
      [] st = "Executing" -> 2
      [] OTHER -> 3

\* C15 as written: the status displayed for a callId only advances along
\* Pending, Confirming, Executing, terminal: an update (pending or history)
\* never leaves the callId displayed with a status earlier than one it was
\* displayed with before, and a terminal status, once shown, stays.
C15_StatusMonotonic ==
    [][\A c \in CallIds :
         (lastEvt'.n = lastEvt.n + 1
          /\ lastEvt'.msg.type \in {"pending_item", "history_item"})
         => \A old \in DisplayedStatuses(mm["c1"], c),
               new \in DisplayedStatuses(mm'["c1"], c) :
              /\ Rank(new) >= Rank(old)
              /\ old \in TerminalStatuses => new = old]_vars

\* --------------------------------------------------------------- C16

\* The hub handles the next viewer message, a tool_confirmation_response
\* with its fields for callId c, in this step.
HandlesResponseFor(c) ==
    /\ inbound # <<>>
    /\ inbound' = Tail(inbound)
    /\ Head(inbound).json
    /\ Head(inbound).type = "tool_confirmation_response"
    /\ Head(inbound).callId = c
    /\ Head(inbound).outcome # Missing

\* The request for callId c is in the pending set.
InPendingSet(c) ==
    \E i \in 1..Len(pendingConfirmations) : pendingConfirmations[i] = c

\* C16. A tool_confirmation_response for a callId that is not in the pending
\* set is a no-op: no confirmation's onConfirm is called, the pending set
\* and the updates queued for it stay as they are, and the hub goes on
\* with the same registry and the same handlers.
C16_UnknownCallIdIsNoOp ==
    [][\A c \in CallIds :
         (HandlesResponseFor(c) /\ ~InPendingSet(c))
         => /\ onConfirmCalls' = onConfirmCalls
            /\ pendingConfirmations' = pendingConfirmations
            /\ pendingConfirmationsRef' = pendingConfirmationsRef
            /\ updaters' = updaters
            /\ clients' = clients
            /\ isRunning' = isRunning
            /\ confirmationResponseHandler' = confirmationResponseHandler]_vars

\* The handler was called with a response for B while only A was pending:
\* onConfirm was called for neither and A is still pending.
C16_Witness ==
    /\ handlerCalls["B"] = 1
    /\ "B" \notin asked
    /\ pendingConfirmations = <<"A">>
    /\ updaters = <<>>
    /\ inbound = <<>>
    /\ onConfirmCalls = [c \in CallIds |-> 0]

\* --------------------------------------------------------------- C17

\* C17 as written: once the session engine has withdrawn the request for a
\* callId with removePendingConfirmation, a viewer response for that callId
\* that the hub handles afterwards, one that was in flight included, is
\* dropped: the confirmation's onConfirm is not called.
C17_WithdrawnIsDropped ==
    [][\A c \in CallIds :
         (c \in withdrawn /\ HandlesResponseFor(c))
         => onConfirmCalls'[c] = onConfirmCalls[c]]_vars

\* --------------------------------------------------------------- C18

\* The hub handles the next viewer message in this step.
HandlesMessage == inbound # <<>> /\ inbound' = Tail(inbound)

\* What arrived is dropped by the hub: it is not JSON, its type is none the
\* hub knows, or it lacks the fields its type needs.
Dropped(message) ==
    \/ ~message.json
    \/ message.type \notin
          {"user_message", "interrupt_request", "tool_confirmation_response"}
    \/ /\ message.type = "tool_confirmation_response"
       /\ message.callId = Missing \/ message.outcome = Missing
    \/ /\ message.type = "user_message"
       /\ \A i \in 1..Len(message.content) : message.content[i] = " "

\* C18. Handling a viewer message never takes the hub down and a message
\* that is not JSON, has an unknown type or lacks its fields is dropped: no
\* handler is called, the stored history, the snapshot slots and the
\* registry stay as they are, the sender stays attached and the hub goes
\* on running.
C18_BadInputIsDropped ==
    /\ [][HandlesMessage
          => /\ isRunning' = isRunning
             /\ clients' = clients
             /\ readyState' = readyState
             /\ currentHistory' = currentHistory
             /\ snapVars' = snapVars]_vars
    /\ [][(HandlesMessage /\ Dropped(Head(inbound)))
          => /\ callVars' = callVars
             /\ updaters' = updaters
             /\ Head(inbound).from \in clients']_vars

\* The hub, with its three handlers set, was sent something that is not
\* JSON by c1, handled it, called no handler and still holds c1.
C18_Witness ==
    /\ confirmationResponseHandler /\ submitQueryHandler
    /\ abortHandler # NoHandler
    /\ strays >= 1
    /\ inbound = <<>>
    /\ submitCalls = <<>> /\ abortCalls = <<>>
    /\ handlerCalls = [c \in CallIds |-> 0]
    /\ clients = {"c1"}
    /\ isRunning

\* --------------------------------------------------------------- C14

\* The entries i and i + 1 of a history are agent texts added further apart
\* than the merge window.
AddedApart(hs, i) ==
    /\ isAIMessage(hs[i])
    /\ isAIMessage(hs[i + 1])
    /\ hs[i + 1].timestamp - hs[i].timestamp > mergeTimeframe

\* The rendered entry e holds the texts a and b one after the other.
HoldsBoth(e, a, b) ==
    \E k \in 1..(Len(e.text) - 1) : e.text[k] = a /\ e.text[k + 1] = b

\* C14 as written: a loaded history is rendered with merge eligibility taken
\* from each entry's own timestamp: two consecutive agent texts whose own
\* timestamps are further apart than the merge window are two entries of the
\* rendered list, though they are loaded at the same instant.
C14_LoadMergesByOwnTimestamp ==
    (lastEvt.n > 0 /\ lastEvt.msg.type = "history_sync")
    => LET hs == lastEvt.msg.history
           shown == Rendered(mm["c1"])
       IN \A i \in 1..(Len(hs) - 1) :
            AddedApart(hs, i)
            => \A j \in 1..Len(shown) :
                 ~HoldsBoth(shown[j], hs[i].text, hs[i + 1].text)

\* --------------------------------------------------------------- C19

\* C19. The bind contract of start(): the first listen is on the configured
\* port (the default one when none is configured); a second listen is made
\* exactly when the first failed with EADDRINUSE, on port 0, and there is
\* never a third; start succeeds only when its last listen came up, and
\* then the port it returns and keeps is the port that listen is bound to;
\* after any other error, or a failed retry, start has failed and the hub
\* is not running.
C19_BindContract ==
    (lastOp.name = "start" /\ bindLog # <<>>)
    => /\ bindLog[1].port = requestedPort(startReturn.config)
       /\ Len(bindLog) <= 2
       /\ Len(bindLog) = 2 <=> bindLog[1].outcome = "EADDRINUSE"
       /\ Len(bindLog) = 2 => bindLog[2].port = 0
       /\ startReturn.ok => Last(bindLog).outcome = "listening"
       /\ startReturn.ok
          => /\ startReturn.port = Last(bindLog).bound
             /\ port = Last(bindLog).bound
             /\ isRunning
       /\ ~startReturn.ok => ~isRunning

\* The configured port was in use and start came up on a port the system
\* assigned, which it returned.
C19_Witness ==
    /\ lastOp.name = "start"
    /\ Len(bindLog) = 2
    /\ bindLog[1].port = 3000
    /\ startReturn.ok
    /\ startReturn.port \in EphemeralPorts
    /\ port = startReturn.port
    /\ isRunning

\* --------------------------------------------------------------- C20

\* C20. Leaving the registry is idempotent: a close event or an error event
\* of a connection leaves the registry without that connection and with
\* every other one, so an event for a connection that an earlier event or
\* the pruning of a broadcast has removed changes nothing; and the pruning
\* of a broadcast removes none but the registered connections that were not
\* OPEN or whose send threw.
C20_DetachIdempotent ==
    /\ [][\A c \in Conns :
            (/\ lastOp'.n = lastOp.n + 1
             /\ lastOp'.name \in {"close", "error"}
             /\ c \in lastOp'.failed)
            => /\ clients' = clients \ {c}
               /\ c \notin clients => clients' = clients]_vars
    /\ [][(lastOp'.n = lastOp.n + 1 /\ lastOp'.name = "broadcastMessage")
          => /\ clients' \subseteq clients
             /\ \A c \in clients \ clients' :
                  readyState[c] # "OPEN" \/ c \in lastOp'.failed]_vars

\* The close event of c1 came after a broadcast had pruned c1: the registry
\* had lost c1 already and still holds c2.
C20_Witness ==
    /\ lastOp.name = "close"
    /\ lastOp.failed = {"c1"}
    /\ lastOp.pre = {"c2"}
    /\ clients = {"c2"}
    /\ readyState["c2"] = "OPEN"

\* --------------------------------------------------------------- C21

\* The hub handles an interrupt_request in this step.
HandlesInterrupt ==
    /\ HandlesMessage
    /\ Head(inbound).json
    /\ Head(inbound).type = "interrupt_request"

\* C21. Each interrupt_request a viewer sent, with or without a callId in
\* it, is answered by one call of the abort handler registered at that
\* moment and by none when no handler is registered; no other handler is
\* called, the hub's state (running flag, registry, stored history, snapshot
\* slots, handlers) stays as it is and nothing is sent to any viewer.
C21_InterruptIsFireAndForget ==
    [][HandlesInterrupt
       => /\ abortCalls' = IF abortHandler = NoHandler THEN abortCalls
                           ELSE Append(abortCalls, abortHandler)
          /\ <<submitCalls, handlerCalls, onConfirmCalls, updaters>>' =
                <<submitCalls, handlerCalls, onConfirmCalls, updaters>>
          /\ handlerVars' = handlerVars
          /\ hubVars' = hubVars
          /\ snapVars' = snapVars]_vars

\* Two interrupts were handled, the first while handler 1 was registered and
\* the second after handler 2 replaced it: each went to the handler of its
\* moment, and the viewers were sent nothing beyond their bootstrap.
C21_Witness ==
    /\ abortCalls = <<1, 2>>
    /\ abortHandler = 2
    /\ inbound = <<>>
    /\ strays = 2
    /\ clients # {}
    /\ \A c \in clients : sent[c] = <<Msg("connection", NullItem, <<>>)>>
                                       \o SnapshotReplay(<<>>, NoMCPServers,
                                                         <<>>, NoCliAction)

\* --------------------------------------------------------------- C22

\* The indices of the pending text entries of the rendered list.
PendingTexts(m) ==
    {i \in 1..Len(m.container) : m.container[i].cls = "pending-text"}

\* C22. When a viewer has handled the history_item of an agent text, its
\* rendered list holds no pending text entry, whether the text was merged
\* into the previous entry, took the place of the pending entry or was
\* appended.
C22_NoPendingTextAfterFinalize ==
    AgentTextEvent(lastEvt) => PendingTexts(mm[lastEvt.v]) = {}

\* An agent text, a pending text and then the agent text that finalizes it
\* within the merge window: the pending entry (element 2) is gone and the
\* first entry shows both texts.
C22_Witness ==
    /\ lastEvt.n = 3
    /\ AgentTextEvent(lastEvt)
    /\ mm["c1"].nextEl = 3
    /\ Len(mm["c1"].container) = 1
    /\ mm["c1"].container[1].cls = "final"
    /\ mm["c1"].container[1].text = <<"t", "t">>

\* --------------------------------------------------------------- C23

\* The finalized entry at index i of m is shown with another text in n: a
\* later text was concatenated onto it.
MergedInto(m, n, i) ==
    /\ m.container[i].cls = "final"
    /\ \E j \in 1..Len(n.container) :
         /\ n.container[j].id = m.container[i].id
         /\ n.container[j].text # m.container[i].text

\* C23. The history_item of an agent text is concatenated onto a finalized
\* entry only if that entry is an agent text and no tool group, pending or
\* finalized, is rendered after it: a text is never merged into an earlier
\* text across a tool group.
C23_NoMergeAcrossToolGroup ==
    [][(lastEvt'.n = lastEvt.n + 1 /\ AgentTextEvent(lastEvt'))
       => LET m == mm["c1"]
          IN \A i \in 1..Len(m.container) :
               MergedInto(m, mm'["c1"], i)
               => /\ isAIMessage(m.container[i])
                  /\ \A k \in (i + 1)..Len(m.container) :
                       m.container[k].type # "tool_group"]_vars

\* --------------------------------------------------------------- C24

\* The manager tracks an agent text entry that is at most the merge window
\* old at the instant at.
TracksRecentText(m, at) ==
    m.lastAI # NoLast /\ at - m.lastAI.timestamp <= mergeTimeframe

\* The list of m with the finalized entry of item h appended.
WithNewFinal(m, h) ==
    Append(m.container, Element(m.nextEl, "final", h.type, <<h.text>>, NoTools))

\* The list of m with its pending text entry made the finalized entry of h,
\* where it stands.
PromotedInPlace(m, after, h) ==
    \E p \in PendingTexts(m) :
        after = [m.container EXCEPT ![p].cls = "final", ![p].text = <<h.text>>]

\* The list of m with the text of h concatenated onto the tracked entry.
ConcatenatedOntoTracked(m, after, h) ==
    \E i \in 1..Len(m.container) :
        /\ m.container[i].id = m.lastAI.element
        /\ after = [m.container EXCEPT ![i].text = @ \o <<h.text>>]

\* C24 as stated. The history_item of an agent text handled while no pending
\* text entry exists appends a finalized entry at the end and changes no
\* existing entry; handled while one exists and no merge applies, it makes
\* the pending entry the finalized entry at its position.
C24_FinalizeWithoutPendingAppends ==
    [][(lastEvt'.n = lastEvt.n + 1 /\ AgentTextEvent(lastEvt'))
       => LET m == mm["c1"]
              after == mm'["c1"].container
              h == lastEvt'.msg.item
          IN IF PendingTexts(m) = {}
             THEN after = WithNewFinal(m, h)
             ELSE ~TracksRecentText(m, lastEvt'.at)
                  => PromotedInPlace(m, after, h)]_vars

\* C24, amended. The history_item of an agent text handled while the manager
\* tracks an agent text entry within the merge window is concatenated onto
\* that entry and adds none; a pending text entry, if there is one, is
\* removed from the list. When no merge applies: without a pending text
\* entry a finalized entry is appended at the end and no existing entry
\* changes; with one, the pending entry becomes the finalized entry at its
\* position.
C24_FinalizeAppendsMergesOrPromotes ==
    [][(lastEvt'.n = lastEvt.n + 1 /\ AgentTextEvent(lastEvt'))
       => LET m == mm["c1"]
              after == mm'["c1"].container
              h == lastEvt'.msg.item
          IN IF TracksRecentText(m, lastEvt'.at)
             THEN IF PendingTexts(m) = {}
                  THEN ConcatenatedOntoTracked(m, after, h)
                  ELSE \E p \in PendingTexts(m) :
                         ConcatenatedOntoTracked(
                             [m EXCEPT !.container = RemoveAt(@, p)], after, h)
             ELSE IF PendingTexts(m) = {}
                  THEN after = WithNewFinal(m, h)
                  ELSE PromotedInPlace(m, after, h)]_vars

\* A pending text, a pending tool group after it, then the agent text that
\* finalizes the pending text where it stands, before the tool group.
C24_Witness ==
    /\ lastEvt.n = 3
    /\ AgentTextEvent(lastEvt)
    /\ mm["c1"].nextEl = 3
    /\ Len(mm["c1"].container) = 2
    /\ mm["c1"].container[1].id = 1
    /\ mm["c1"].container[1].cls = "final"
    /\ mm["c1"].container[1].text = <<"t">>
    /\ mm["c1"].container[2].cls = "pending-tools"
    /\ mm["c1"].lastAI.element = 1
    /\ mm["c1"].lastAI.text = <<"t">>

\* --------------------------------------------------------------- C25

ToolGroupEvent(e) ==
    e.msg.type = "history_item" /\ e.msg.item.type = "tool_group"

\* C25. When a viewer has handled the history_item of a tool group, every
\* callId of the group is in the set of completed callIds, so that a later
\* pending update for it is dropped.
C25_FinalizedCallsAreCompleted ==
    ToolGroupEvent(lastEvt)
    => DOMAIN lastEvt.msg.item.tools \subseteq mm[lastEvt.v].completed

\* --------------------------------------------------------------- C26

\* How many callIds the pending group k of m shares with the tools T.
SharedWith(m, k, T) == Cardinality((DOMAIN m.groups[k].tools) \cap DOMAIN T)

\* The elements of the other pending groups of m that share a callId with T:
\* the stale duplicates a finalization removes.
StaleDuplicates(m, k, T) ==
    {m.groups[j].messageId :
        j \in {x \in 1..Len(m.groups) : x # k /\ SharedWith(m, x, T) > 0}}

\* The list of m with the element of group k made the finalized entry of T
\* where it stands, the stale duplicates left out and every other entry as
\* it was and where it was.
ReplacedInPlace(m, k, T) ==
    LET put == [i \in 1..Len(m.container) |->
                  IF m.container[i].id = m.groups[k].messageId
                  THEN [m.container[i] EXCEPT !.cls = "final", !.tools = T]
                  ELSE m.container[i]]
        stale == StaleDuplicates(m, k, T)
    IN SelectSeq(put, LAMBDA e : e.id \notin stale)

\* C26. The history_item of a tool group picks, among the pending groups,
\* one that shares the most callIds with it. If that group shares at least
\* one, its entry becomes the finalized entry where it stands (the entries
\* that stay keep their order and content) and the group leaves the index;
\* if no pending group shares a callId, the finalized entry is appended at
\* the end of the list.
C26_FinalizeReplacesBestMatch ==
    [][(lastEvt'.n = lastEvt.n + 1 /\ ToolGroupEvent(lastEvt'))
       => LET m == mm["c1"]
              n == mm'["c1"]
              T == lastEvt'.msg.item.tools
              K == 1..Len(m.groups)
          IN IF \E k \in K : SharedWith(m, k, T) > 0
             THEN \E k \in K :
                    /\ \A j \in K : SharedWith(m, j, T) <= SharedWith(m, k, T)
                    /\ n.container = ReplacedInPlace(m, k, T)
                    /\ \A j \in 1..Len(n.groups) :
                         n.groups[j].messageId # m.groups[k].messageId
             ELSE /\ n.container =
                       Append(m.container,
                              Element(m.nextEl, "final", "tool_group", <<>>, T))
                  /\ n.groups = m.groups]_vars

\* A pending group for A (element 1), one for B and C (element 2), C added
\* to the first, then the tool group {B, C} finalized: the second group
\* shares two callIds, the first one; the second became the finalized entry.
C26_Witness ==
    /\ lastEvt.n = 4
    /\ ToolGroupEvent(lastEvt)
    /\ DOMAIN lastEvt.msg.item.tools = {"B", "C"}
    /\ mm["c1"].nextEl = 3
    /\ Len(mm["c1"].container) = 1
    /\ mm["c1"].container[1].id = 2
    /\ mm["c1"].container[1].cls = "final"
    /\ mm["c1"].groups = <<>>

\* --------------------------------------------------------------- C27

\* The viewer handles the pending_item of a text in the step to e.
PendingTextEvent(e) ==
    /\ e.msg.type = "pending_item"
    /\ e.msg.item # NullItem
    /\ e.msg.item.type # "tool_group"

\* C27. A viewer's list holds at most one pending text entry in every
\* reachable state. The pending_item of a text creates the entry at the end
\* of the list when there is none; when there is one it puts the new text
\* into that entry, which stays where it is, and adds no entry.
C27_OnePendingText ==
    /\ [](\A v \in Conns : Cardinality(PendingTexts(mm[v])) <= 1)
    /\ [][(lastEvt'.n = lastEvt.n + 1 /\ PendingTextEvent(lastEvt'))
          => LET m == mm["c1"]
                 after == mm'["c1"].container
                 p == lastEvt'.msg.item
             IN IF PendingTexts(m) = {}
                THEN after = Append(m.container,
                                    Element(m.nextEl, "pending-text", p.type,
                                            <<p.text>>, NoTools))
                ELSE \E i \in PendingTexts(m) :
                        after = [m.container EXCEPT ![i].text = <<p.text>>]]_vars

\* The pending text p, a pending tool group after it and then the pending
\* text q: the one pending text entry is still the first of the list and
\* shows q.
C27_Witness ==
    /\ lastEvt.n = 3
    /\ PendingTextEvent(lastEvt)
    /\ mm["c1"].nextEl = 3
    /\ Len(mm["c1"].container) = 2
    /\ mm["c1"].container[1].cls = "pending-text"
    /\ mm["c1"].container[1].text = <<"q">>
    /\ mm["c1"].container[2].cls = "pending-tools"

\* --------------------------------------------------------------- C28

\* The viewer handles the pending_item of a tool group in the step to e.
PendingToolEvent(e) ==
    e.msg.type = "pending_item" /\ e.msg.item.type = "tool_group"

\* The callIds the pending groups of m track or its pending tool entries show.
PendingCalls(m) ==
    UNION ({DOMAIN m.groups[k].tools : k \in 1..Len(m.groups)}
           \cup {DOMAIN m.container[i].tools :
                   i \in {j \in 1..Len(m.container) :
                            m.container[j].cls = "pending-tools"}})

\* C28. The pending_item of a tool group leaves out every callId that is in
\* the set of completed callIds: none of them enters a pending group or a
\* pending tool entry. When every callId of the update is completed, the
\* update is ignored: the list, the index of pending groups and the set of
\* completed callIds are what they were.
C28_CompletedCallsDropped ==
    [][(lastEvt'.n = lastEvt.n + 1 /\ PendingToolEvent(lastEvt'))
       => LET m == mm["c1"]
              n == mm'["c1"]
              T == DOMAIN lastEvt'.msg.item.tools
          IN /\ PendingCalls(n) \cap (T \cap m.completed) = {}
             /\ T \subseteq m.completed
                => /\ n.container = m.container
                   /\ n.groups = m.groups
                   /\ n.completed = m.completed]_vars

\* The tool group {A} was finalized and then a pending update for A arrived:
\* the list still holds the one finalized entry and no pending group exists.
C28_Witness ==
    /\ lastEvt.n = 2
    /\ PendingToolEvent(lastEvt)
    /\ DOMAIN lastEvt.msg.item.tools = {"A"}
    /\ mm["c1"].completed = {"A"}
    /\ Len(mm["c1"].container) = 1
    /\ mm["c1"].container[1].cls = "final"
    /\ mm["c1"].groups = <<>>
    /\ mm["c1"].nextEl = 2

\* --------------------------------------------------------------- C29

\* The calls of the update p that are not completed in m.
Surviving(m, p) ==
    [c \in (DOMAIN p.tools) \ m.completed |-> p.tools[c]]

\* The pending group k of m tracks a call of the tools T.
Shares(m, k, T) == (DOMAIN m.groups[k].tools) \cap (DOMAIN T) # {}

\* The calls old with those of T put over them, by callId.
ReplacedByCallId(old, T) ==
    [c \in (DOMAIN old) \cup (DOMAIN T) |->
        IF c \in DOMAIN T THEN T[c] ELSE old[c]]

\* C29. The pending_item of a tool group with a callId that is not
\* completed: if a pending group tracks one of the surviving callIds, the
\* surviving calls are put into such a group, replacing by callId, its entry
\* shows the merged calls and the list gets no new entry; if no pending
\* group does, a new pending group of the surviving calls is created and
\* its entry appended at the end of the list.
C29_PendingGroupMergedOrCreated ==
    [][(lastEvt'.n = lastEvt.n + 1 /\ PendingToolEvent(lastEvt'))
       => LET m == mm["c1"]
              n == mm'["c1"]
              T == Surviving(m, lastEvt'.msg.item)
              K == 1..Len(m.groups)
          IN DOMAIN T # {}
             => IF \E k \in K : Shares(m, k, T)
                THEN \E k \in K :
                       LET merged == ReplacedByCallId(m.groups[k].tools, T)
                       IN /\ Shares(m, k, T)
                          /\ n.groups = [m.groups EXCEPT ![k].tools = merged]
                          /\ \E i \in 1..Len(m.container) :
                               /\ m.container[i].id = m.groups[k].messageId
                               /\ n.container =
                                    [m.container EXCEPT ![i].tools = merged]
                ELSE /\ n.container =
                          Append(m.container,
                                 Element(m.nextEl, "pending-tools",
                                         "tool_group", <<>>, T))
                     /\ n.groups =
                          Append(m.groups,
                                 [messageId |-> m.nextEl, tools |-> T])]_vars

\* A pending group for A awaiting its turn, then the update that shows A
\* executing together with B: one entry, one group, A replaced and B added.
C29_Witness ==
    /\ lastEvt.n = 2
    /\ PendingToolEvent(lastEvt)
    /\ mm["c1"].nextEl = 2
    /\ Len(mm["c1"].container) = 1
    /\ mm["c1"].container[1].cls = "pending-tools"
    /\ mm["c1"].container[1].tools = [c \in {"A", "B"} |-> "Executing"]
    /\ Len(mm["c1"].groups) = 1
    /\ mm["c1"].groups[1].tools = [c \in {"A", "B"} |-> "Executing"]

\* --------------------------------------------------------------- C30

\* The viewer handles a pending_item with data null in the step to e.
ClearPendingEvent(e) == e.msg.type = "pending_item" /\ e.msg.item = NullItem

\* C30. A pending_item with null data removes the pending text entry and
\* every pending tool entry from the list and empties the index of pending
\* groups; the finalized entries keep their content and order, and the set
\* of completed callIds and the entry tracked for merging stay as they are.
C30_ClearPendingKeepsFinalized ==
    [][(lastEvt'.n = lastEvt.n + 1 /\ ClearPendingEvent(lastEvt'))
       => LET m == mm["c1"]
              n == mm'["c1"]
          IN /\ n.container =
                  SelectSeq(m.container,
                            LAMBDA e : e.cls \notin {"pending-text",
                                                     "pending-tools"})
             /\ n.groups = <<>>
             /\ n.completed = m.completed
             /\ n.lastAI = m.lastAI]_vars

\* The tool group {A} finalized, a pending entry after it, then the
\* pending_item with null data: the finalized entry is all that is left and
\* A is still completed.
C30_Witness ==
    /\ lastEvt.n = 3
    /\ ClearPendingEvent(lastEvt)
    /\ mm["c1"].nextEl = 3
    /\ Len(mm["c1"].container) = 1
    /\ mm["c1"].container[1].cls = "final"
    /\ mm["c1"].container[1].tools = [c \in {"A"} |-> "Success"]
    /\ mm["c1"].completed = {"A"}
    /\ mm["c1"].groups = <<>>

\* --------------------------------------------------------------- C31

ClearEvent(e) == e.msg.type = "clear"

\* C31. When a viewer has handled a clear, its manager is that of a new one:
\* empty list, no pending group, nothing tracked for merging, no completed
\* callId. The event after the clear is therefore handled as a first event:
\* the pending_item of a tool group is accepted with all its calls, and the
\* history_item of an agent text becomes the only entry, with its own text.
C31_ClearAllResets ==
    /\ [](ClearEvent(lastEvt) => mm[lastEvt.v] = NewManager)
    /\ [][(lastEvt'.n = lastEvt.n + 1 /\ ClearEvent(lastEvt))
          => LET n == mm'["c1"]
                 h == lastEvt'.msg.item
             IN /\ PendingToolEvent(lastEvt')
                   => /\ Len(n.container) = 1
                      /\ n.container[1].cls = "pending-tools"
                      /\ n.container[1].tools = h.tools
                /\ AgentTextEvent(lastEvt')
                   => /\ Len(n.container) = 1
                      /\ n.container[1].text = <<h.text>>]_vars

\* After two events and a clear that left nothing of them, the pending
\* update showing A as executing was accepted: it is the only entry.
C31_Witness ==
    /\ lastEvt.n = 3
    /\ PendingToolEvent(lastEvt)
    /\ lastEvt.msg.item.tools = [c \in {"A"} |-> "Executing"]
    /\ mm["c1"].nextEl = 2
    /\ mm["c1"].completed = {}
    /\ Len(mm["c1"].container) = 1
    /\ mm["c1"].container[1].cls = "pending-tools"

\* --------------------------------------------------------------- C32

\* A handler of a socket's error or close event runs in this step.
HandlesDisconnect ==
    \E i \in 1..Len(sockets) :
        /\ sockets[i].events # <<>>
        /\ sockets'[i].events = Tail(sockets[i].events)

LiveSockets ==
    {i \in 1..Len(sockets) : sockets[i].state \in {"CONNECTING", "OPEN"}}

\* C38. A viewer has at most one live socket and at most one reconnect
\* scheduled at any time, also after a connection failure that raised the
\* error event and the close event of the socket.
C38_OneSocketOneReconnect ==
    /\ Cardinality(LiveSockets) <= 1
    /\ Len(timers) <= 1

\* --------------------------------------------------------------- C33

\* This step is a call of the hub method of this name.
LifecycleCall(name) == lastOp'.n = lastOp.n + 1 /\ lastOp'.name = name

\* C33. The hub is Stopped or Running: start() on a running hub throws
\* 'already running' and leaves the running flag, the port and the registry
\* as they are; stop() on a stopped hub changes nothing; stop() on a running
\* hub leaves the registry empty, the port unset and the hub stopped; and
\* start() on a stopped hub is never rejected as already running.
C33_TwoStateLifecycle ==
    /\ [][(LifecycleCall("start") /\ isRunning)
          => /\ startReturn'.error = "already_running"
             /\ ~startReturn'.ok
             /\ UNCHANGED <<isRunning, port, clients, readyState>>]_vars
    /\ [][(LifecycleCall("stop") /\ ~isRunning)
          => UNCHANGED <<isRunning, port, clients, readyState, sent,
                         currentHistory>>]_vars
    /\ [][(LifecycleCall("stop") /\ isRunning)
          => /\ clients' = {}
             /\ port' = NoPort
             /\ ~isRunning']_vars
    /\ [][(LifecycleCall("start") /\ ~isRunning)
          => startReturn'.error # "already_running"]_vars

\* A hub that had a viewer attached was stopped, which closed the viewer's
\* socket, and a later start brought it up again with an empty registry.
C33_Witness ==
    /\ lastOp.name = "start"
    /\ startReturn.ok
    /\ isRunning
    /\ clients = {}
    /\ \E c \in Conns : readyState[c] = "CLOSED"

\* --------------------------------------------------------------- C34

\* C34. When start() has failed after its server came to listen (the address
\* could not be read, or setting up the WebSocket server threw), the hub
\* holds no server and no port.
C34_FailedStartHoldsNothing ==
    (lastOp.name = "start" /\ startReturn.error \in {"no_address", "wss_throws"})
    => /\ server = NoPort
       /\ port = NoPort

\* --------------------------------------------------------------- C35

\* The confirmation of this callId is in the provider's pending list.
IsPending(list, id) == \E i \in 1..Len(list) : list[i] = id

\* The messages sent to c in this step.
NewlySent(c) == SubSeq(sent'[c], Len(sent[c]) + 1, Len(sent'[c]))

\* How often the message is among the ones sent to c in this step.
TimesSent(c, msg) ==
    Cardinality({i \in 1..Len(NewlySent(c)) : NewlySent(c)[i] = msg})

\* C35. While the hub runs, a render that changes the pending confirmations
\* is mirrored to every attached viewer with an open socket: a callId that
\* entered the set is sent once as tool_confirmation, a callId that left it
\* is sent once as tool_confirmation_removal, and nothing is sent for any
\* other callId.
C35_ConfirmationChangesMirrored ==
    [][(updaters # <<>> /\ updaters' = <<>> /\ isRunning)
       => \A c \in clients :
            readyState[c] = "OPEN"
            => \A id \in CallIds :
                 LET was == IsPending(pendingConfirmations, id)
                     is == IsPending(pendingConfirmations', id)
                 IN /\ TimesSent(c, ConfirmationMsg(id))
                         = IF is /\ ~was THEN 1 ELSE 0
                    /\ TimesSent(c, RemovalMsg(id))
                         = IF was /\ ~is THEN 1 ELSE 0]_vars

\* --------------------------------------------------------------- C36

\* C36. Whatever the order of a viewer's attach, the broadcast of a new
\* history entry e and the update of the hub's stored history: once the
\* session has added e and nothing else, the stored history holds e and an
\* attached viewer has handled all it was sent, the viewer shows e exactly
\* once.
C36_AttachRaceShowsEntryOnce ==
    \A c \in Conns :
        (/\ c \in clients
         /\ readyState[c] = "OPEN"
         /\ rcvd[c] = Len(sent[c])
         /\ Len(history) = 1
         /\ Len(published) = 1
         /\ currentHistory = history)
        => Rendered(mm[c]) = FinalEntries(history)

\* --------------------------------------------------------------- C37

\* C37. Each callId belongs to at most one pending tool group: no two
\* entries of the index of pending groups hold the same callId.
C37_CallInOnePendingGroup ==
    \A j, k \in 1..Len(mm["c1"].groups) :
        j # k
        => (DOMAIN mm["c1"].groups[j].tools)
              \cap (DOMAIN mm["c1"].groups[k].tools) = {}

\* --------------------------------------------------------------- C40

\* The history array hs holds a tool group that shows c with a terminal
\* status.
LoadsTerminal(hs, c) ==
    \E i \in 1..Len(hs) :
        /\ hs[i].type = "tool_group"
        /\ c \in DOMAIN hs[i].tools
        /\ hs[i].tools[c] \in TerminalStatuses

\* C40. Terminal state survives a snapshot load: when the viewer has loaded
\* a history that holds a finalized tool group with a terminal status for
\* callId c, the pending_item of a tool group that mentions c and is handled
\* next puts c into no pending group and no pending entry, and the statuses
\* shown for c stay as they were.
C40_TerminalSurvivesLoad ==
    [][\A c \in CallIds :
         (/\ lastEvt.msg.type = "history_sync"
          /\ LoadsTerminal(lastEvt.msg.history, c)
          /\ lastEvt'.n = lastEvt.n + 1
          /\ lastEvt'.v = lastEvt.v
          /\ lastEvt'.msg.type = "pending_item"
          /\ lastEvt'.msg.item.type = "tool_group"
          /\ c \in DOMAIN lastEvt'.msg.item.tools)
         => /\ c \notin PendingCalls(mm'[lastEvt.v])
            /\ DisplayedStatuses(mm'[lastEvt.v], c)
                 = DisplayedStatuses(mm[lastEvt.v], c)]_vars

\* --------------------------------------------------------------- C39

\* C39. A viewer converges to the hub's state when it connects again: when
\* the hub's stored history was empty at the attach, so that the bootstrap
\* carried no history, and the viewer has handled exactly its bootstrap, it
\* shows no finalized entry and no pending projection, whatever it showed
\* before the disconnection.
C39_ReconnectConverges ==
    \A c \in Conns :
        (BootstrappedOnly(c) /\ BootHistory(c) = <<>>)
        => /\ Rendered(mm[c]) = <<>>
           /\ mm[c].groups = <<>>
           /\ PendingTextIdx(mm[c]) = 0

====
